---- MODULE Spec2Model ----
(***************************************************************************)
(* Model of the cbuffer repository: the page-rounding helper, the aliased  *)
(* mapping built by CByteBuffer::Allocate / CBuffer<T>::Allocate, the      *)
(* magic ring CByteBuffer and the split ring ByteBuffer.                   *)
(*                                                                         *)
(* Sizes are scaled so that the address space can be enumerated: one page  *)
(* is PAGE_SIZE bytes, size_t arithmetic is taken modulo SizeMod, and the  *)
(* two literal virtual sizes of cbuffer.hpp keep their shape (a power-of-  *)
(* two number of pages for the default, a smaller page multiple for the    *)
(* hotfix value).                                                          *)
(***************************************************************************)
EXTENDS Integers, Sequences, FiniteSets, TLC

\* ------------------------------------------------------------------ sizes
\* sysconf(_SC_PAGESIZE), 4096 on the author's machine
PAGE_SIZE == 2
\* size_t is an unsigned type: arithmetic is modulo 2^64 (scaled)
SizeMod == 256
\* the literal 4294967296 of the default and one-argument constructors
DefaultVSize == 16
\* the literal 4294803456 of the hotfix in CByteBuffer::Allocate
HotfixVSize == 12
\* the literal 4096 the hotfix compares PSize with: one page
HotfixPSize == PAGE_SIZE
\* the literal 16 of the CBuffer<T> default virtual size multiplier
CBufferVMult == 16

\* ------------------------------------------------------------------ bounds
\* largest physical size a constructor is asked for (3 pages)
MaxReq == 6
\* largest uint8_t multiplier passed to a two-argument constructor
MaxMult == 3
\* largest physical size asked for where the ring's contents are explored
MaxRingReq == 4
\* largest sizeof(T) of a record pushed or popped
MaxRecSize == 3
\* largest element count of a Buffer<T>
MaxCount == 4

Min(a, b) == IF a < b THEN a ELSE b

\* ------------------------------------------------------------- page math
ToNextPageSize(v) ==
    IF v < PAGE_SIZE
    THEN PAGE_SIZE
    ELSE ((((v + PAGE_SIZE - 1) % SizeMod) \div PAGE_SIZE) * PAGE_SIZE) % SizeMod

\* ------------------------------------------------ virtual address space
\* One entry per page of the range [Data, Data+VSize):
\*   prot "unmapped": no mapping at this page (never mapped, or munmapped)
\*   prot "none":     the PROT_NONE anonymous reservation
\*   prot "rw":       shared read/write mapping of page fpage of the memfd
PageUnmapped == [prot |-> "unmapped", fpage |-> 0]
PageReserved == [prot |-> "none", fpage |-> 0]

NoPages == [p \in {} |-> PageUnmapped]

\* mmap(NULL, len, PROT_NONE, MAP_PRIVATE | MAP_ANONYMOUS, -1, 0)
MmapReserve(len) == [p \in 0..((len \div PAGE_SIZE) - 1) |-> PageReserved]

\* mmap(Base + off, len, PROT_READ | PROT_WRITE, MAP_SHARED | MAP_FIXED, fd, 0)
MmapFixed_AtFileOffset(vm, off, len) ==
    [p \in DOMAIN vm |->
        IF p * PAGE_SIZE >= off /\ p * PAGE_SIZE < off + len
        THEN [prot |-> "rw", fpage |-> p]
        ELSE vm[p]]

MmapFixed(vm, off, len) ==
    [p \in DOMAIN vm |->
        IF p * PAGE_SIZE >= off /\ p * PAGE_SIZE < off + len
        THEN [prot |-> "rw", fpage |-> p - (off \div PAGE_SIZE)]
        ELSE vm[p]]

\* munmap(Data, len): every page of [Data, Data+len) loses its mapping
Munmap(vm, len) ==
    [p \in DOMAIN vm |-> IF p * PAGE_SIZE < len THEN PageUnmapped ELSE vm[p]]

\* ftruncate(fd, len) on the fresh memfd: len zero bytes (0 bytes if it fails)
Ftruncate(len, ok) == [i \in 0..((IF ok THEN len ELSE 0) - 1) |-> 0]

\* The outcomes of the operating system calls of one Allocate:
\*   reserve, memfd, ftrunc: whether the call succeeds
\*   mapFail: the slot whose MAP_FIXED mmap fails (a slot that is never
\*            reached means no mapping fails)
\* and of the undefined division VSize / 0 in the loop condition when PSize
\* is 0:
\*   divByZero: "SIGFPE" when the division is executed and traps, "skipped"
\*            when the build enters the first iteration without dividing
DivOutcomes == {"SIGFPE", "skipped"}
OsOutcomes(maxSlot) ==
    [reserve : BOOLEAN, memfd : BOOLEAN, ftrunc : BOOLEAN, mapFail : 0..maxSlot,
     divByZero : DivOutcomes]

\* ---------------------------------------------------------- object state
\* status: "absent"  not constructed
\*         "ready"   constructor returned
\*         "threw"   constructor threw std::runtime_error (err is what())
\*         "SIGFPE", "SIGSEGV", "SIGBUS": the process was killed by the signal
\* fd: "none" (never opened), "open", "closed"; closes counts close(fd) calls
\* slots: how many MAP_FIXED mappings were installed
\* oob: whether an access went outside [Data, Data+VSize)
\* ElemSize: sizeof(T) of a CBuffer<T> (0 for the other classes)
Absent ==
    [status |-> "absent", class |-> "none", err |-> "", PSize |-> 0, VSize |-> 0,
     Head |-> 0, Tail |-> 0, DataSet |-> FALSE, vm |-> NoPages,
     file |-> Ftruncate(0, FALSE), fd |-> "none", closes |-> 0, slots |-> 0,
     oob |-> FALSE, ElemSize |-> 0]

\* GetPageCount(): VSize / PSize (callers guard PSize # 0)
GetPageCount(r) == r.VSize \div r.PSize

\* The mapping loop of CByteBuffer::Allocate, from slot i on.
CByteBuffer_MapFailure_NoUnmap(r) ==
    [r EXCEPT !.fd = "closed", !.closes = @ + 1,
              !.status = "threw", !.err = "Physical mapping failed"]

CByteBuffer_MapFailure(r) ==
    [r EXCEPT !.vm = Munmap(r.vm, r.VSize),
              !.fd = "closed", !.closes = @ + 1,
              !.status = "threw", !.err = "Physical mapping failed"]

RECURSIVE CByteBuffer_MapLoop(_, _, _)
CByteBuffer_MapLoop(r, i, os) ==
    IF r.PSize = 0
    THEN IF os.divByZero = "SIGFPE"
         THEN [r EXCEPT !.status = "SIGFPE"]
         ELSE \* mmap(addr, 0, ..., MAP_FIXED, fd, 0) fails with EINVAL
              CByteBuffer_MapFailure(r)
    ELSE IF i >= GetPageCount(r)
    THEN [r EXCEPT !.fd = "closed", !.closes = @ + 1, !.status = "ready"]
    ELSE IF os.mapFail = i
    THEN CByteBuffer_MapFailure(r)
    ELSE CByteBuffer_MapLoop(
            [r EXCEPT !.vm = MmapFixed(r.vm, i * r.PSize, r.PSize), !.slots = @ + 1],
            i + 1, os)

\* The size adjustments at the head of CByteBuffer::Allocate.
CByteBuffer_AdjustVSize(PSize, VSize) ==
    LET v1 == IF VSize < PSize THEN PSize ELSE VSize
    IN  IF PSize = HotfixPSize THEN HotfixVSize ELSE v1

\* When memfd_create fails, Allocate throws with the reservation in place.
CByteBuffer_MemfdFailure(r) ==
    [r EXCEPT !.status = "threw", !.err = "memfd_create failed"]

\* CByteBuffer::Allocate, run on the sizes the constructor initialised.
CByteBuffer_Allocate(PSize, VSize, os) ==
    LET v  == CByteBuffer_AdjustVSize(PSize, VSize)
        r0 == [Absent EXCEPT !.class = "CByteBuffer", !.PSize = PSize, !.VSize = v,
                             !.Head = 0, !.Tail = 0]
        r1 == [r0 EXCEPT !.vm = MmapReserve(v), !.DataSet = TRUE]
        r2 == [r1 EXCEPT !.fd = "open", !.file = Ftruncate(PSize, os.ftrunc)]
    IN  IF ~os.reserve \/ v = 0
        THEN [r0 EXCEPT !.status = "threw", !.err = "Virtual reservation failed"]
        ELSE IF ~os.memfd
        THEN CByteBuffer_MemfdFailure(r1)
        ELSE CByteBuffer_MapLoop(r2, 0, os)

\* CByteBuffer(): one page, 4 GiB
CByteBuffer_Ctor0(os) == CByteBuffer_Allocate(PAGE_SIZE, DefaultVSize, os)
\* CByteBuffer(size_t pbuffer_size_)
CByteBuffer_Ctor1(p, os) == CByteBuffer_Allocate(ToNextPageSize(p), DefaultVSize, os)
\* CByteBuffer(size_t pbuffer_size_, uint8_t vbuffer_mult_)
CByteBuffer_Ctor2(p, m, os) ==
    CByteBuffer_Allocate(ToNextPageSize(p), (m * ToNextPageSize(p)) % SizeMod, os)

\* ------------------------------------------------------------ CBuffer<T>
CBuffer_MapFailure_NoClose(r) ==
    [r EXCEPT !.status = "threw", !.err = "Physical mapping failed"]

CBuffer_MapFailure(r) ==
    [r EXCEPT !.fd = "closed", !.closes = @ + 1,
              !.status = "threw", !.err = "Physical mapping failed"]

RECURSIVE CBuffer_MapLoop(_, _, _)
CBuffer_MapLoop(r, i, os) ==
    IF r.PSize = 0
    THEN IF os.divByZero = "SIGFPE"
         THEN [r EXCEPT !.status = "SIGFPE"]
         ELSE \* mmap(addr, 0, ..., MAP_FIXED, fd, 0) fails with EINVAL
              CBuffer_MapFailure(r)
    ELSE IF i >= GetPageCount(r)
    THEN [r EXCEPT !.fd = "closed", !.closes = @ + 1, !.status = "ready"]
    ELSE IF os.mapFail = i
    THEN CBuffer_MapFailure(r)
    ELSE CBuffer_MapLoop(
            [r EXCEPT !.vm = MmapFixed(r.vm, i * r.PSize, r.PSize), !.slots = @ + 1],
            i + 1, os)

CBuffer_MemfdFailure(r) ==
    [r EXCEPT !.status = "threw", !.err = "memfd_create failed"]

\* CBuffer<T>::Allocate
CBuffer_Allocate(PSize, VSize, os) ==
    LET v  == IF VSize < PSize THEN PSize ELSE VSize
        r0 == [Absent EXCEPT !.class = "CBuffer", !.PSize = PSize, !.VSize = v]
        r1 == [r0 EXCEPT !.vm = MmapReserve(v), !.DataSet = TRUE]
        r2 == [r1 EXCEPT !.fd = "open", !.file = Ftruncate(PSize, os.ftrunc)]
    IN  IF ~os.reserve \/ v = 0
        THEN [r0 EXCEPT !.status = "threw", !.err = "Virtual reservation failed"]
        ELSE IF ~os.memfd
        THEN CBuffer_MemfdFailure(r1)
        ELSE CBuffer_MapLoop(r2, 0, os)

CBuffer_Ctor0(os) == CBuffer_Allocate(PAGE_SIZE, (CBufferVMult * PAGE_SIZE) % SizeMod, os)
CBuffer_Ctor1(p, os) ==
    CBuffer_Allocate(ToNextPageSize(p), (CBufferVMult * ToNextPageSize(p)) % SizeMod, os)
CBuffer_Ctor2(p, m, os) ==
    CBuffer_Allocate(ToNextPageSize(p), (m * ToNextPageSize(p)) % SizeMod, os)

\* ----------------------------------------------------------- destructors
\* ~CByteBuffer() and ~CBuffer(), ok being whether munmap succeeds and nulls
\* whether the build keeps the store Data = nullptr: the object's lifetime
\* ends with the destructor, nothing reads Data afterwards, and an
\* optimising build drops the store, so that Data still points at the
\* released range.
\*   r: the object afterwards (status "destroyed": the destructor returned)
\*   munmaps: how many munmap calls it made; len: the length it passed
\*   stderr: what it printed
CByteBuffer_Dtor_PhysicalOnly(r, ok, nulls) ==
    IF r.DataSet
    THEN [r |-> [r EXCEPT !.vm = IF ok THEN Munmap(r.vm, r.PSize) ELSE r.vm,
                          !.DataSet = ~nulls, !.status = "destroyed"],
          munmaps |-> 1, len |-> r.PSize,
          stderr |-> IF ok THEN <<>> ELSE <<"CByteBuffer Cleanup Error">>]
    ELSE [r |-> [r EXCEPT !.status = "destroyed"],
          munmaps |-> 0, len |-> 0, stderr |-> <<>>]

CByteBuffer_Dtor(r, ok, nulls) ==
    IF r.DataSet
    THEN [r |-> [r EXCEPT !.vm = IF ok THEN Munmap(r.vm, r.VSize) ELSE r.vm,
                          !.DataSet = ~nulls, !.status = "destroyed"],
          munmaps |-> 1, len |-> r.VSize,
          stderr |-> IF ok THEN <<>> ELSE <<"CByteBuffer Cleanup Error">>]
    ELSE [r |-> [r EXCEPT !.status = "destroyed"],
          munmaps |-> 0, len |-> 0, stderr |-> <<>>]

CBuffer_Dtor(r, ok, nulls) ==
    IF r.DataSet
    THEN [r |-> [r EXCEPT !.vm = IF ok THEN Munmap(r.vm, r.VSize) ELSE r.vm,
                          !.DataSet = ~nulls, !.status = "destroyed"],
          munmaps |-> 1, len |-> r.VSize,
          stderr |-> IF ok THEN <<>> ELSE <<"CBuffer Cleanup Error">>]
    ELSE [r |-> [r EXCEPT !.status = "destroyed"],
          munmaps |-> 0, len |-> 0, stderr |-> <<>>]

\* ------------------------------------------------------------- records
\* A record of type T is its object representation: sizeof(T) bytes.
\* Rec(t, s) is the value number t of the record type of size s; two values
\* of one size differ in every byte and neighbouring bytes differ.
Tags == {1, 2}
Rec(t, s) == [i \in 1..s |-> 1 + ((t + i) % Cardinality(Tags))]
Bytes == 0..Cardinality(Tags)
RecSizes == 1..MaxRecSize

\* What undefined behaviour does when an access leaves the object accessed:
\* "fault" kills the process (SIGSEGV), "silent" touches foreign memory.
UbOutcomes == {"fault", "silent"}
\* The outcomes that can differ for an access of s bytes at cursor c of an
\* object of size bytes: one when the access stays inside.
UbChoices(c, s, size) == IF c + s > size THEN UbOutcomes ELSE {"fault"}
\* The bytes foreign memory holds, one for each byte of an access of s
\* bytes: junk[k] is what the k-th byte of the access reads when it lies
\* outside the object.  NoJunk is used where no byte lies outside.
NoJunk == <<0>>
JunkAt(junk, k) == junk[((k - 1) % Len(junk)) + 1]
JunkChoices(c, s, size) ==
    IF c + s > size
    THEN {j \in [1..s -> Bytes] : \A k \in 1..s : c + k - 1 < size => j[k] = 0}
    ELSE {NoJunk}
\* The same for the split ring, whose copies leave the allocation only when
\* the record is larger than it or the cursor is outside it.  With the
\* cursor past the end the lengths of both copies wrap, and the bytes that
\* come back into Data are read from the memory before the record: one
\* independent byte for each of them.
BUbChoices(c, s, size) == IF s > size \/ c >= size THEN UbOutcomes ELSE {"fault"}
BJunkChoices(c, s, size) ==
    IF s > size \/ c >= size
    THEN [1..(s + (IF c > size THEN size + Min(c - size, size) ELSE 0)) -> Bytes]
    ELSE {NoJunk}

\* ---------------------------------------------------- CByteBuffer memory
\* The store of one byte b at Data[a].
CByteBuffer_StoreByte(r, a, b, ub) ==
    IF r.status # "ready" THEN r
    ELSE IF a >= r.VSize
    THEN [r EXCEPT !.oob = TRUE,
                   !.status = IF ub = "fault" THEN "SIGSEGV" ELSE @]
    ELSE LET pg == r.vm[a \div PAGE_SIZE]
             f  == pg.fpage * PAGE_SIZE + (a % PAGE_SIZE)
         IN  IF pg.prot # "rw" THEN [r EXCEPT !.status = "SIGSEGV"]
             ELSE IF f \notin DOMAIN r.file THEN [r EXCEPT !.status = "SIGBUS"]
             ELSE [r EXCEPT !.file[f] = b]

\* The load of the byte at Data[a]: [r |-> ring afterwards, b |-> byte read].
CByteBuffer_LoadByte(r, a, ub, junk) ==
    IF r.status # "ready" THEN [r |-> r, b |-> 0]
    ELSE IF a >= r.VSize
    THEN [r |-> [r EXCEPT !.oob = TRUE,
                          !.status = IF ub = "fault" THEN "SIGSEGV" ELSE @],
          b |-> junk]
    ELSE LET pg == r.vm[a \div PAGE_SIZE]
             f  == pg.fpage * PAGE_SIZE + (a % PAGE_SIZE)
         IN  IF pg.prot # "rw" THEN [r |-> [r EXCEPT !.status = "SIGSEGV"], b |-> 0]
             ELSE IF f \notin DOMAIN r.file
             THEN [r |-> [r EXCEPT !.status = "SIGBUS"], b |-> 0]
             ELSE [r |-> r, b |-> r.file[f]]

\* *reinterpret_cast<T*>(&Data[a]) = data: bytes i..Len(data) of the record;
\* the address of each byte is computed in size_t arithmetic
RECURSIVE CByteBuffer_Store(_, _, _, _, _)
CByteBuffer_Store(r, a, data, i, ub) ==
    IF i > Len(data) THEN r
    ELSE CByteBuffer_Store(CByteBuffer_StoreByte(r, (a + i - 1) % SizeMod, data[i], ub),
                           a, data, i + 1, ub)

\* std::memcpy(&data, &Data[a], s): [r |-> ring afterwards, data |-> bytes]
RECURSIVE CByteBuffer_Load(_, _, _, _, _, _)
CByteBuffer_Load(r, a, s, acc, ub, junk) ==
    IF Len(acc) >= s THEN [r |-> r, data |-> acc]
    ELSE LET l == CByteBuffer_LoadByte(r, (a + Len(acc)) % SizeMod, ub,
                                       JunkAt(junk, Len(acc) + 1))
         IN  CByteBuffer_Load(l.r, a, s, Append(acc, l.b), ub, junk)

\* Head += sizeof(T); if (Head >= VSize) Head -= VSize;
CByteBuffer_Advance_NoWrap(c, s, VSize) == (c + s) % SizeMod

CByteBuffer_Advance_WrapShort(c, s, VSize) ==
    LET n == (c + s) % SizeMod
    IN  IF n >= VSize THEN (n - (VSize - 1)) % SizeMod ELSE n

CByteBuffer_Advance(c, s, VSize) ==
    LET n == (c + s) % SizeMod
    IN  IF n >= VSize THEN (n - VSize) % SizeMod ELSE n

\* CByteBuffer::Push<T>(data)
CByteBuffer_Push(r, data, ub) ==
    LET r1 == CByteBuffer_Store(r, r.Head, data, 1, ub)
    IN  IF r1.status # "ready" THEN r1
        ELSE [r1 EXCEPT !.Head = CByteBuffer_Advance(r.Head, Len(data), r.VSize)]

\* CByteBuffer::Pop<T>(): [r |-> ring afterwards, data |-> value returned]
CByteBuffer_Pop_AtHead(r, s, ub, junk) ==
    LET l == CByteBuffer_Load(r, r.Head, s, <<>>, ub, junk)
    IN  IF l.r.status # "ready" THEN [r |-> l.r, data |-> <<>>]
        ELSE [r |-> [l.r EXCEPT !.Tail = CByteBuffer_Advance(r.Tail, s, r.VSize)],
              data |-> l.data]

CByteBuffer_Pop_Clearing(r, s, ub, junk) ==
    LET l  == CByteBuffer_Load(r, r.Tail, s, <<>>, ub, junk)
        r1 == CByteBuffer_Store(l.r, r.Tail, [i \in 1..s |-> 0], 1, ub)
    IN  IF r1.status # "ready" THEN [r |-> r1, data |-> <<>>]
        ELSE [r |-> [r1 EXCEPT !.Tail = CByteBuffer_Advance(r.Tail, s, r.VSize)],
              data |-> l.data]

CByteBuffer_Pop(r, s, ub, junk) ==
    LET l == CByteBuffer_Load(r, r.Tail, s, <<>>, ub, junk)
    IN  IF l.r.status # "ready" THEN [r |-> l.r, data |-> <<>>]
        ELSE [r |-> [l.r EXCEPT !.Tail = CByteBuffer_Advance(r.Tail, s, r.VSize)],
              data |-> l.data]

\* CByteBuffer::Reset()
CByteBuffer_Reset_HeadOnly(r) == [r EXCEPT !.Head = 0]

CByteBuffer_Reset_HeadToTail(r) == [r EXCEPT !.Head = r.Tail, !.Tail = 0]

CByteBuffer_Reset(r) == [r EXCEPT !.Head = 0, !.Tail = 0]

\* ---------------------------------------------------- CBuffer<T> elements
\* CBuffer<T> with T of s bytes: the template argument fixes sizeof(T).
CBuffer_OfType(r, s) == [r EXCEPT !.ElemSize = s]

GetVItemCount(r) == r.VSize \div r.ElemSize
GetPItemCount(r) == r.PSize \div r.ElemSize

\* buf[index] = data: Data is a T*, so element index is at byte index*sizeof(T)
CBuffer_Write(r, index, data, ub) ==
    CByteBuffer_Store(r, (index * r.ElemSize) % SizeMod, data, 1, ub)

\* data = buf[index]: [r |-> buffer afterwards, data |-> value read]
CBuffer_Read(r, index, ub, junk) ==
    LET l == CByteBuffer_Load(r, (index * r.ElemSize) % SizeMod, r.ElemSize,
                              <<>>, ub, junk)
    IN  IF l.r.status # "ready" THEN [r |-> l.r, data |-> <<>>] ELSE l

\* ------------------------------------------------------------ ByteBuffer
BAbsent ==
    [status |-> "absent", Capacity |-> 0, Data |-> [i \in {} |-> 0],
     Head |-> 0, Tail |-> 0, oob |-> FALSE]

\* What the heap can hold in a block of n bytes (or elements) that malloc
\* returns.
HeapContents(n) == [0..(n - 1) -> Bytes]

\* ByteBuffer(size_t Capacity_): malloc leaves the bytes uninitialised,
\* fill[i] is what byte i happens to hold.  Capacity_ is taken within the
\* range of int.
ByteBuffer_Ctor(cap, fill) ==
    [status |-> "ready", Capacity |-> cap, Data |-> [i \in 0..(cap - 1) |-> fill[i]],
     Head |-> 0, Tail |-> 0, oob |-> FALSE]

\* memcpy(&Data[dst], src + from, n), src being the record data.  Byte k of
\* the copy goes from offset from + k of the record to Data[dst + k], both
\* computed in size_t arithmetic, so that a copy whose length wrapped runs
\* round the address space and comes back into Data.  A byte read outside
\* the record is what foreign memory holds (junk), a byte written outside
\* Data lands in foreign memory; either one is an access outside an object:
\* "fault" stops at the first such byte, "silent" carries the copy through.
MemcpySrcIn(data, from, k) == ((from + k) % SizeMod) < Len(data)

MemcpyDstIn(r, dst, k) == ((dst + k) % SizeMod) \in DOMAIN r.Data

MemcpyByte(data, from, k, junk) ==
    IF MemcpySrcIn(data, from, k) THEN data[((from + k) % SizeMod) + 1]
    ELSE JunkAt(junk, ((from + k) % SizeMod) + 1)

ByteBuffer_MemcpyIn(r, dst, data, from, n, ub, junk) ==
    IF n = 0 \/ r.status # "ready" THEN r
    ELSE LET bad   == {k \in 0..(n - 1) :
                          ~(MemcpySrcIn(data, from, k) /\ MemcpyDstIn(r, dst, k))}
             first == CHOOSE k \in bad : \A j \in bad : k <= j
             limit == IF bad # {} /\ ub = "fault" THEN first ELSE n
             at(d) == (d + SizeMod - (dst % SizeMod)) % SizeMod
         IN  [r EXCEPT
                 !.Data   = [d \in DOMAIN r.Data |->
                                IF at(d) < limit THEN MemcpyByte(data, from, at(d), junk)
                                ELSE r.Data[d]],
                 !.oob    = r.oob \/ bad # {},
                 !.status = IF bad # {} /\ ub = "fault" THEN "SIGSEGV" ELSE r.status]

\* T data; before anything is copied into it
Uninit(s, junk) == [k \in 1..s |-> JunkAt(junk, k)]

\* memcpy(&data + at, &Data[src], n), acc being the bytes of data so far:
\* [r, data].  Byte k of the copy goes from Data[src + k] to offset at + k
\* of data, both computed in size_t arithmetic; a byte read outside Data is
\* what foreign memory holds, a byte written outside data lands in foreign
\* memory, and "fault" stops at the first such byte.
ByteBuffer_MemcpyOut(r, src, n, acc, at, ub, junk) ==
    IF n = 0 \/ r.status # "ready" THEN [r |-> r, data |-> acc]
    ELSE LET srcIn(k) == ((src + k) % SizeMod) \in DOMAIN r.Data
             dstIn(k) == ((at + k) % SizeMod) < Len(acc)
             bad   == {k \in 0..(n - 1) : ~(srcIn(k) /\ dstIn(k))}
             first == CHOOSE k \in bad : \A j \in bad : k <= j
             limit == IF bad # {} /\ ub = "fault" THEN first ELSE n
             to(j) == (j - 1 + SizeMod - (at % SizeMod)) % SizeMod
         IN  [r    |-> [r EXCEPT
                           !.oob    = r.oob \/ bad # {},
                           !.status = IF bad # {} /\ ub = "fault" THEN "SIGSEGV"
                                      ELSE r.status],
              data |-> [j \in 1..Len(acc) |->
                           IF to(j) < limit
                           THEN IF srcIn(to(j)) THEN r.Data[(src + to(j)) % SizeMod]
                                ELSE JunkAt(junk, j)
                           ELSE acc[j]]]

\* ByteBuffer::Push<T>(data)
ByteBuffer_Push_NoWrap(r, data, ub, junk) ==
    LET r1 == ByteBuffer_MemcpyIn(r, r.Head, data, 0, Len(data), ub, junk)
    IN  IF r1.status # "ready" THEN r1
        ELSE [r1 EXCEPT !.Head = (r.Head + Len(data)) % SizeMod]

ByteBuffer_Push_ColdFromStart(r, data, ub, junk) ==
    LET s == Len(data)
    IN  IF (r.Head + s) % SizeMod <= r.Capacity
        THEN LET r1 == ByteBuffer_MemcpyIn(r, r.Head, data, 0, s, ub, junk)
                 h  == (r.Head + s) % SizeMod
             IN  IF r1.status # "ready" THEN r1
                 ELSE [r1 EXCEPT !.Head = IF h = r.Capacity THEN 0 ELSE h]
        ELSE LET firstPart  == (r.Capacity - r.Head) % SizeMod
                 secondPart == (s - firstPart) % SizeMod
                 r1 == ByteBuffer_MemcpyIn(r, r.Head, data, 0, firstPart, ub, junk)
                 r2 == ByteBuffer_MemcpyIn(r1, 0, data, 0, secondPart, ub, junk)
             IN  IF r2.status # "ready" THEN r2
                 ELSE [r2 EXCEPT !.Head = secondPart]

ByteBuffer_Push(r, data, ub, junk) ==
    LET s == Len(data)
    IN  IF (r.Head + s) % SizeMod <= r.Capacity
        THEN \* hot path
             LET r1 == ByteBuffer_MemcpyIn(r, r.Head, data, 0, s, ub, junk)
                 h  == (r.Head + s) % SizeMod
             IN  IF r1.status # "ready" THEN r1
                 ELSE [r1 EXCEPT !.Head = IF h = r.Capacity THEN 0 ELSE h]
        ELSE \* cold path
             LET firstPart  == (r.Capacity - r.Head) % SizeMod
                 secondPart == (s - firstPart) % SizeMod
                 r1 == ByteBuffer_MemcpyIn(r, r.Head, data, 0, firstPart, ub, junk)
                 r2 == ByteBuffer_MemcpyIn(r1, 0, data, firstPart, secondPart, ub, junk)
             IN  IF r2.status # "ready" THEN r2
                 ELSE [r2 EXCEPT !.Head = secondPart]

\* ByteBuffer::Pop<T>(): [r |-> ring afterwards, data |-> value returned]
ByteBuffer_Pop_TailFirstPart(r, s, ub, junk) ==
    IF (r.Tail + s) % SizeMod <= r.Capacity
    THEN LET l == ByteBuffer_MemcpyOut(r, r.Tail, s, Uninit(s, junk), 0, ub, junk)
             t == (r.Tail + s) % SizeMod
         IN  IF l.r.status # "ready" THEN [r |-> l.r, data |-> <<>>]
             ELSE [r |-> [l.r EXCEPT !.Tail = IF t = r.Capacity THEN 0 ELSE t],
                   data |-> l.data]
    ELSE LET firstPart  == (r.Capacity - r.Tail) % SizeMod
             secondPart == (s - firstPart) % SizeMod
             l1 == ByteBuffer_MemcpyOut(r, r.Tail, firstPart, Uninit(s, junk), 0, ub, junk)
             l2 == ByteBuffer_MemcpyOut(l1.r, 0, secondPart, l1.data,
                                        firstPart, ub, junk)
         IN  IF l2.r.status # "ready" THEN [r |-> l2.r, data |-> <<>>]
             ELSE [r |-> [l2.r EXCEPT !.Tail = firstPart], data |-> l2.data]

ByteBuffer_Pop_NoWrapAtCapacity(r, s, ub, junk) ==
    IF (r.Tail + s) % SizeMod <= r.Capacity
    THEN LET l == ByteBuffer_MemcpyOut(r, r.Tail, s, Uninit(s, junk), 0, ub, junk)
         IN  IF l.r.status # "ready" THEN [r |-> l.r, data |-> <<>>]
             ELSE [r |-> [l.r EXCEPT !.Tail = (r.Tail + s) % SizeMod],
                   data |-> l.data]
    ELSE LET firstPart  == (r.Capacity - r.Tail) % SizeMod
             secondPart == (s - firstPart) % SizeMod
             l1 == ByteBuffer_MemcpyOut(r, r.Tail, firstPart, Uninit(s, junk), 0, ub, junk)
             l2 == ByteBuffer_MemcpyOut(l1.r, 0, secondPart, l1.data,
                                        firstPart, ub, junk)
         IN  IF l2.r.status # "ready" THEN [r |-> l2.r, data |-> <<>>]
             ELSE [r |-> [l2.r EXCEPT !.Tail = secondPart], data |-> l2.data]

ByteBuffer_Pop(r, s, ub, junk) ==
    IF (r.Tail + s) % SizeMod <= r.Capacity
    THEN \* hot path
         LET l == ByteBuffer_MemcpyOut(r, r.Tail, s, Uninit(s, junk), 0, ub, junk)
             t == (r.Tail + s) % SizeMod
         IN  IF l.r.status # "ready" THEN [r |-> l.r, data |-> <<>>]
             ELSE [r |-> [l.r EXCEPT !.Tail = IF t = r.Capacity THEN 0 ELSE t],
                   data |-> l.data]
    ELSE \* cold path
         LET firstPart  == (r.Capacity - r.Tail) % SizeMod
             secondPart == (s - firstPart) % SizeMod
             l1 == ByteBuffer_MemcpyOut(r, r.Tail, firstPart, Uninit(s, junk), 0, ub, junk)
             l2 == ByteBuffer_MemcpyOut(l1.r, 0, secondPart, l1.data,
                                        firstPart, ub, junk)
         IN  IF l2.r.status # "ready" THEN [r |-> l2.r, data |-> <<>>]
             ELSE [r |-> [l2.r EXCEPT !.Tail = secondPart], data |-> l2.data]

\* ByteBuffer::Reset()
ByteBuffer_Reset(r) == [r EXCEPT !.Head = 0, !.Tail = 0]

\* ------------------------------------------------------------- Buffer<T>
\* a & b on size_t values
RECURSIVE BitAnd(_, _)
BitAnd(a, b) ==
    IF a = 0 \/ b = 0 THEN 0
    ELSE (a % 2) * (b % 2) + 2 * BitAnd(a \div 2, b \div 2)

\* Buffer(size_t count_): malloc leaves the elements uninitialised, fill[i]
\* is what element i happens to hold.  An element is one value of T.
Buffer_Ctor(count, fill) ==
    [status |-> "ready", class |-> "Buffer", Count |-> count,
     Data |-> [i \in 0..(count - 1) |-> fill[i]], oob |-> FALSE]

\* The element Buffer<T>::operator[](index) returns a reference to.
Buffer_Index(Count, index) ==
    IF index < Count THEN index
    ELSE BitAnd(index, (Count - 1) % SizeMod)

\* The outcomes of an access to that element: it lies outside the block
\* malloc returned only when Count = 0.
BufUbChoices(r, index) ==
    IF Buffer_Index(r.Count, index) \in DOMAIN r.Data THEN {"fault"} ELSE UbOutcomes

BufJunkChoices(r, index) ==
    IF Buffer_Index(r.Count, index) \in DOMAIN r.Data THEN {0} ELSE Bytes

\* buf[index] = v.  A store outside the block either faults or lands in
\* foreign memory.
Buffer_Write(r, index, v, ub) ==
    LET e == Buffer_Index(r.Count, index)
    IN  IF e \in DOMAIN r.Data THEN [r EXCEPT !.Data[e] = v]
        ELSE IF ub = "fault" THEN [r EXCEPT !.oob = TRUE, !.status = "SIGSEGV"]
        ELSE [r EXCEPT !.oob = TRUE]

\* v = buf[index]: [r |-> buffer afterwards, data |-> <<v>>].  A load
\* outside the block either faults or returns what foreign memory holds.
Buffer_Read(r, index, ub, junk) ==
    LET e == Buffer_Index(r.Count, index)
    IN  IF e \in DOMAIN r.Data THEN [r |-> r, data |-> <<r.Data[e]>>]
        ELSE IF ub = "fault"
        THEN [r |-> [r EXCEPT !.oob = TRUE, !.status = "SIGSEGV"], data |-> <<>>]
        ELSE [r |-> [r EXCEPT !.oob = TRUE], data |-> <<junk>>]

\* ~Buffer(): std::free(Data); Data is left dangling.
Buffer_Dtor(r) == [r EXCEPT !.status = "destroyed"]

\* ~ByteBuffer(): std::free(Data); Data is left dangling, the cursors stay.
ByteBuffer_Dtor(r) == [r EXCEPT !.status = "destroyed"]

\* CByteBuffer::operator[](index) returns a reference to Data[index]; the
\* ring keeps no record of it and no cursor moves.
\* cbuf[index] = b
CByteBuffer_IndexStore(r, index, b, ub) == CByteBuffer_StoreByte(r, index, b, ub)

\* b = cbuf[index]: [r |-> ring afterwards, b |-> byte read]
CByteBuffer_IndexLoad(r, index, ub, junk) == CByteBuffer_LoadByte(r, index, ub, junk)

\* ByteBuffer::operator[](index) returns a reference to Data[index]; a byte
\* outside the allocation is either a fault or foreign memory.
\* bbuf[index] = b
ByteBuffer_IndexStore(r, index, b, ub) ==
    IF r.status # "ready" THEN r
    ELSE IF index \in DOMAIN r.Data THEN [r EXCEPT !.Data[index] = b]
    ELSE [r EXCEPT !.oob = TRUE,
                   !.status = IF ub = "fault" THEN "SIGSEGV" ELSE @]

\* b = bbuf[index]: [r |-> ring afterwards, b |-> byte read]
ByteBuffer_IndexLoad(r, index, ub, junk) ==
    IF r.status # "ready" THEN [r |-> r, b |-> 0]
    ELSE IF index \in DOMAIN r.Data THEN [r |-> r, b |-> r.Data[index]]
    ELSE [r |-> [r EXCEPT !.oob = TRUE,
                          !.status = IF ub = "fault" THEN "SIGSEGV" ELSE @],
          b |-> junk]

\* ================================================================ state
\* cbuf:   the CByteBuffer or CBuffer<T> object and its mappings
\* bbuf:   the ByteBuffer object
\* last:   the last call made and what it returned
\* pushed: the records pushed since the ring was constructed or reset
\* popped: the records popped since the ring was constructed or reset
VARIABLES cbuf, bbuf, last, pushed, popped

vars == <<cbuf, bbuf, last, pushed, popped>>

\* op: the call; s: sizeof(T); c: the cursor before the call; data: the value
\* passed to Push or returned by Pop
NoCall == [op |-> "none", s |-> 0, c |-> 0, data |-> <<>>]
Call(op, s, c, data) == [op |-> op, s |-> s, c |-> c, data |-> data]

\* the outcomes tried: the failing slot ranges over every slot of a range
Os == OsOutcomes(CBufferVMult)
\* every operating system call of Allocate succeeds
OsAllOk ==
    {[reserve |-> TRUE, memfd |-> TRUE, ftrunc |-> TRUE, mapFail |-> CBufferVMult + 1,
      divByZero |-> d] : d \in DivOutcomes}

Requests == 0..MaxReq
Mults == 0..MaxMult

Init ==
    /\ cbuf = Absent
    /\ bbuf = BAbsent
    /\ last = NoCall
    /\ pushed = <<>>
    /\ popped = <<>>

Nothing == cbuf.status = "absent" /\ bbuf.status = "absent"

\* ------------------------------------------------------- construction
NewCByteBuffer0 ==
    /\ Nothing
    /\ \E os \in Os : cbuf' = CByteBuffer_Ctor0(os)
    /\ last' = Call("CByteBuffer()", 0, 0, <<>>)
    /\ UNCHANGED <<bbuf, pushed, popped>>

NewCByteBuffer1 ==
    /\ Nothing
    /\ \E p \in Requests, os \in Os :
          /\ cbuf' = CByteBuffer_Ctor1(p, os)
          /\ last' = Call("CByteBuffer(p)", p, 0, <<>>)
    /\ UNCHANGED <<bbuf, pushed, popped>>

NewCByteBuffer2 ==
    /\ Nothing
    /\ \E p \in Requests, m \in Mults, os \in Os :
          /\ cbuf' = CByteBuffer_Ctor2(p, m, os)
          /\ last' = Call("CByteBuffer(p,m)", p, m, <<>>)
    /\ UNCHANGED <<bbuf, pushed, popped>>

NewCBuffer0 ==
    /\ Nothing
    /\ \E os \in Os : cbuf' = CBuffer_Ctor0(os)
    /\ last' = Call("CBuffer()", 0, 0, <<>>)
    /\ UNCHANGED <<bbuf, pushed, popped>>

NewCBuffer1 ==
    /\ Nothing
    /\ \E p \in Requests, os \in Os :
          /\ cbuf' = CBuffer_Ctor1(p, os)
          /\ last' = Call("CBuffer(p)", p, 0, <<>>)
    /\ UNCHANGED <<bbuf, pushed, popped>>

NewCBuffer2 ==
    /\ Nothing
    /\ \E p \in Requests, m \in Mults, os \in Os :
          /\ cbuf' = CBuffer_Ctor2(p, m, os)
          /\ last' = Call("CBuffer(p,m)", p, m, <<>>)
    /\ UNCHANGED <<bbuf, pushed, popped>>

NewByteBuffer ==
    /\ Nothing
    /\ \E cap \in Requests : \E fill \in HeapContents(cap) :
          /\ bbuf' = ByteBuffer_Ctor(cap, fill)
          /\ last' = Call("ByteBuffer(cap)", cap, 0, <<>>)
    /\ UNCHANGED <<cbuf, pushed, popped>>

Next ==
    \/ NewCByteBuffer0
    \/ NewCByteBuffer1
    \/ NewCByteBuffer2
    \/ NewCBuffer0
    \/ NewCBuffer1
    \/ NewCBuffer2
    \/ NewByteBuffer

Spec == Init /\ [][Next]_vars

IsCByteBuffer == cbuf.class = "CByteBuffer"

\* ============================================================ ring calls
\* The record sizes a caller may use on a ring of physical size P: the
\* documented precondition sizeof(T) <= P.
LegalSizes(P) == {s \in RecSizes : s <= P}

IsRing(r) == r.status = "ready" /\ r.class = "CByteBuffer"

CPush(sizes, tags) ==
    /\ IsRing(cbuf)
    /\ \E s \in sizes, t \in tags :
       \E ub \in UbChoices(cbuf.Head, s, cbuf.VSize) :
          /\ cbuf' = CByteBuffer_Push(cbuf, Rec(t, s), ub)
          /\ last' = Call("Push", s, cbuf.Head, Rec(t, s))
    /\ UNCHANGED <<bbuf, pushed, popped>>

CPop(sizes) ==
    /\ IsRing(cbuf)
    /\ \E s \in sizes :
       \E ub \in UbChoices(cbuf.Tail, s, cbuf.VSize),
          junk \in JunkChoices(cbuf.Tail, s, cbuf.VSize) :
          LET res == CByteBuffer_Pop(cbuf, s, ub, junk)
          IN  /\ cbuf' = res.r
              /\ last' = Call("Pop", s, cbuf.Tail, res.data)
    /\ UNCHANGED <<bbuf, pushed, popped>>

CReset ==
    /\ IsRing(cbuf)
    /\ cbuf' = CByteBuffer_Reset(cbuf)
    /\ last' = Call("Reset", 0, 0, <<>>)
    /\ UNCHANGED <<bbuf, pushed, popped>>

BPush(sizes, tags) ==
    /\ bbuf.status = "ready"
    /\ \E s \in sizes, t \in tags :
       \E ub \in BUbChoices(bbuf.Head, s, bbuf.Capacity),
          junk \in BJunkChoices(bbuf.Head, s, bbuf.Capacity) :
          /\ bbuf' = ByteBuffer_Push(bbuf, Rec(t, s), ub, junk)
          /\ last' = Call("Push", s, bbuf.Head, Rec(t, s))
    /\ UNCHANGED <<cbuf, pushed, popped>>

BPop(sizes) ==
    /\ bbuf.status = "ready"
    /\ \E s \in sizes :
       \E ub \in BUbChoices(bbuf.Tail, s, bbuf.Capacity),
          junk \in BJunkChoices(bbuf.Tail, s, bbuf.Capacity) :
          LET res == ByteBuffer_Pop(bbuf, s, ub, junk)
          IN  /\ bbuf' = res.r
              /\ last' = Call("Pop", s, bbuf.Tail, res.data)
    /\ UNCHANGED <<cbuf, pushed, popped>>

BReset ==
    /\ bbuf.status = "ready"
    /\ bbuf' = ByteBuffer_Reset(bbuf)
    /\ last' = Call("Reset", 0, 0, <<>>)
    /\ UNCHANGED <<cbuf, pushed, popped>>

\* ------------------------------------------------ rings in use (SpecRing)
\* The rings a program holds after a constructor returned, every operating
\* system call having succeeded.
FreshCByteBuffers(reqs) ==
    {CByteBuffer_Ctor0(os) : os \in OsAllOk}
        \cup {CByteBuffer_Ctor1(p, os) : p \in reqs, os \in OsAllOk}
        \cup {CByteBuffer_Ctor2(p, m, os) : p \in reqs, m \in Mults, os \in OsAllOk}

FreshByteBuffers(reqs) ==
    UNION {{ByteBuffer_Ctor(cap, fill) : fill \in HeapContents(cap)} : cap \in reqs}

RingRequests == 0..MaxRingReq

InitRing ==
    /\ \/ cbuf \in FreshCByteBuffers(RingRequests) /\ bbuf = BAbsent
       \/ cbuf = Absent /\ bbuf \in FreshByteBuffers(RingRequests)
    /\ last = NoCall
    /\ pushed = <<>>
    /\ popped = <<>>

RingPush == CPush(LegalSizes(cbuf.PSize), {1})
RingPop == CPop(LegalSizes(cbuf.PSize))
SplitPush == BPush(LegalSizes(bbuf.Capacity), {1})
SplitPop == BPop(LegalSizes(bbuf.Capacity))

NextRing ==
    \/ RingPush
    \/ RingPop
    \/ CReset
    \/ SplitPush
    \/ SplitPop
    \/ BReset

SpecRing == InitRing /\ [][NextRing]_vars

\* --------------------------------- records of any size (SpecAnySize)
\* The same calls with the record type unconstrained: sizeof(T) may exceed
\* the physical size.
\* The last call used a record larger than the ring's physical size.  The
\* run is followed up to the first such call.
Oversized ==
    /\ last.op \in {"Push", "Pop"}
    /\ last.s > (IF bbuf.status = "absent" THEN cbuf.PSize ELSE bbuf.Capacity)

AnyPush == ~Oversized /\ CPush(RecSizes, {1})
AnyPop == ~Oversized /\ CPop(RecSizes)
AnyReset == ~Oversized /\ CReset
AnySplitPush == ~Oversized /\ BPush(RecSizes, {1})
AnySplitPop == ~Oversized /\ BPop(RecSizes)
AnySplitReset == ~Oversized /\ BReset

NextAnySize ==
    \/ AnyPush
    \/ AnyPop
    \/ AnyReset
    \/ AnySplitPush
    \/ AnySplitPop
    \/ AnySplitReset

SpecAnySize == InitRing /\ [][NextAnySize]_vars

\* ------------------------------------- push then pop (SpecRoundTrip)
\* A caller pushes records r1..rn on a fresh or reset ring and then pops
\* them with the same types in the same order.
RECURSIVE Total(_)
Total(recs) == IF recs = <<>> THEN 0 ELSE Len(Head(recs)) + Total(Tail(recs))

IsPrefix(a, b) == Len(a) <= Len(b) /\ \A i \in 1..Len(a) : a[i] = b[i]

\* The bytes pushed stay within the virtual range and go at most one page
\* past the physical size.
RTLimit(r) == Min(r.VSize, r.PSize + PAGE_SIZE)

RTPush ==
    /\ IsRing(cbuf)
    /\ popped = <<>>
    /\ \E s \in LegalSizes(cbuf.PSize), t \in Tags :
          /\ Total(pushed) + s <= RTLimit(cbuf)
          /\ cbuf' = CByteBuffer_Push(cbuf, Rec(t, s), "fault")
          /\ last' = Call("Push", s, cbuf.Head, Rec(t, s))
          /\ pushed' = Append(pushed, Rec(t, s))
    /\ UNCHANGED <<bbuf, popped>>

RTPop ==
    /\ IsRing(cbuf)
    /\ Len(popped) < Len(pushed)
    /\ LET s   == Len(pushed[Len(popped) + 1])
           res == CByteBuffer_Pop(cbuf, s, "fault", NoJunk)
       IN  /\ cbuf' = res.r
           /\ last' = Call("Pop", s, cbuf.Tail, res.data)
           /\ popped' = Append(popped, res.data)
    /\ UNCHANGED <<bbuf, pushed>>

\* Reset starts the scenario again on a ring that holds an earlier record.
RTReset ==
    /\ IsRing(cbuf)
    /\ Len(pushed) = 1
    /\ popped = <<>>
    /\ cbuf' = CByteBuffer_Reset(cbuf)
    /\ last' = Call("Reset", 0, 0, <<>>)
    /\ pushed' = <<>>
    /\ UNCHANGED <<bbuf, popped>>

RTSplitPush ==
    /\ bbuf.status = "ready"
    /\ popped = <<>>
    /\ \E s \in LegalSizes(bbuf.Capacity), t \in Tags :
          /\ Total(pushed) + s <= bbuf.Capacity
          /\ bbuf' = ByteBuffer_Push(bbuf, Rec(t, s), "fault", NoJunk)
          /\ last' = Call("Push", s, bbuf.Head, Rec(t, s))
          /\ pushed' = Append(pushed, Rec(t, s))
    /\ UNCHANGED <<cbuf, popped>>

RTSplitPop ==
    /\ bbuf.status = "ready"
    /\ Len(popped) < Len(pushed)
    /\ LET s   == Len(pushed[Len(popped) + 1])
           res == ByteBuffer_Pop(bbuf, s, "fault", NoJunk)
       IN  /\ bbuf' = res.r
           /\ last' = Call("Pop", s, bbuf.Tail, res.data)
           /\ popped' = Append(popped, res.data)
    /\ UNCHANGED <<cbuf, pushed>>

RTSplitReset ==
    /\ bbuf.status = "ready"
    /\ Len(pushed) = 1
    /\ popped = <<>>
    /\ bbuf' = ByteBuffer_Reset(bbuf)
    /\ last' = Call("Reset", 0, 0, <<>>)
    /\ pushed' = <<>>
    /\ UNCHANGED <<cbuf, popped>>

NextRoundTrip ==
    \/ RTPush
    \/ RTPop
    \/ RTReset
    \/ RTSplitPush
    \/ RTSplitPop
    \/ RTSplitReset

SpecRoundTrip == InitRing /\ [][NextRoundTrip]_vars

\* ------------------------------ overrun without pops (SpecOverwrite)
\* A caller pushes a record A, then copies of a record B of the same size
\* s (s dividing the physical size) without popping, then pops once.
InitOverwrite ==
    /\ \/ cbuf \in FreshCByteBuffers(Requests) /\ bbuf = BAbsent
       \/ cbuf = Absent /\ bbuf \in FreshByteBuffers(Requests)
    /\ last = NoCall
    /\ pushed = <<>>
    /\ popped = <<>>

DividingSizes(P) == {s \in LegalSizes(P) : P % s = 0}

OWPushA ==
    /\ IsRing(cbuf)
    /\ pushed = <<>>
    /\ \E s \in DividingSizes(cbuf.PSize) :
          /\ cbuf' = CByteBuffer_Push(cbuf, Rec(1, s), "fault")
          /\ last' = Call("Push", s, cbuf.Head, Rec(1, s))
          /\ pushed' = <<Rec(1, s)>>
    /\ UNCHANGED <<bbuf, popped>>

\* B is pushed until the pushes have gone once around the virtual range.
OWPushB ==
    /\ IsRing(cbuf)
    /\ pushed # <<>>
    /\ popped = <<>>
    /\ Total(pushed) <= cbuf.VSize
    /\ LET s == Len(pushed[1])
       IN  /\ cbuf' = CByteBuffer_Push(cbuf, Rec(2, s), "fault")
           /\ last' = Call("Push", s, cbuf.Head, Rec(2, s))
           /\ pushed' = Append(pushed, Rec(2, s))
    /\ UNCHANGED <<bbuf, popped>>

OWPop ==
    /\ IsRing(cbuf)
    /\ pushed # <<>>
    /\ popped = <<>>
    /\ Total(pushed) - Len(pushed[1]) >= cbuf.PSize
    /\ LET s   == Len(pushed[1])
           res == CByteBuffer_Pop(cbuf, s, "fault", NoJunk)
       IN  /\ cbuf' = res.r
           /\ last' = Call("Pop", s, cbuf.Tail, res.data)
           /\ popped' = <<res.data>>
    /\ UNCHANGED <<bbuf, pushed>>

OWSplitPushA ==
    /\ bbuf.status = "ready"
    /\ pushed = <<>>
    /\ \E s \in DividingSizes(bbuf.Capacity) :
          /\ bbuf' = ByteBuffer_Push(bbuf, Rec(1, s), "fault", NoJunk)
          /\ last' = Call("Push", s, bbuf.Head, Rec(1, s))
          /\ pushed' = <<Rec(1, s)>>
    /\ UNCHANGED <<cbuf, popped>>

OWSplitPushB ==
    /\ bbuf.status = "ready"
    /\ pushed # <<>>
    /\ popped = <<>>
    /\ Total(pushed) <= 2 * bbuf.Capacity
    /\ LET s == Len(pushed[1])
       IN  /\ bbuf' = ByteBuffer_Push(bbuf, Rec(2, s), "fault", NoJunk)
           /\ last' = Call("Push", s, bbuf.Head, Rec(2, s))
           /\ pushed' = Append(pushed, Rec(2, s))
    /\ UNCHANGED <<cbuf, popped>>

OWSplitPop ==
    /\ bbuf.status = "ready"
    /\ pushed # <<>>
    /\ popped = <<>>
    /\ Total(pushed) - Len(pushed[1]) >= bbuf.Capacity
    /\ LET s   == Len(pushed[1])
           res == ByteBuffer_Pop(bbuf, s, "fault", NoJunk)
       IN  /\ bbuf' = res.r
           /\ last' = Call("Pop", s, bbuf.Tail, res.data)
           /\ popped' = <<res.data>>
    /\ UNCHANGED <<cbuf, pushed>>

NextOverwrite ==
    \/ OWPushA
    \/ OWPushB
    \/ OWPop
    \/ OWSplitPushA
    \/ OWSplitPushB
    \/ OWSplitPop

SpecOverwrite == InitOverwrite /\ [][NextOverwrite]_vars

\* ------------------------------------------ page rounding (SpecPageMath)
\* A caller passes any size_t value to ToNextPageSize; last.s is the argument
\* and last.data holds the value returned.
Sizes == 0..(SizeMod - 1)

PageRound ==
    /\ Nothing
    /\ \E v \in Sizes : last' = Call("ToNextPageSize", v, 0, <<ToNextPageSize(v)>>)
    /\ UNCHANGED <<cbuf, bbuf, pushed, popped>>

\* CByteBuffer(size_t pbuffer_size_) with any size_t value, every operating
\* system call succeeding that can succeed: no process has half the range of
\* size_t as address space, so the reservation of a VSize that large (the
\* mmap of Allocate) returns MAP_FAILED.
NewCByteBufferAny ==
    /\ Nothing
    /\ last.op = "none"
    /\ \E v \in Sizes :
          \E os \in OsAllOk :
             LET VSize == CByteBuffer_AdjustVSize(ToNextPageSize(v), DefaultVSize)
                 reserved == VSize < SizeMod \div 2
             IN  /\ cbuf' = CByteBuffer_Ctor1(v, [os EXCEPT !.reserve = reserved])
                 /\ last' = Call("CByteBuffer(p)", v, 0, <<>>)
    /\ UNCHANGED <<bbuf, pushed, popped>>

NextPageMath ==
    \/ PageRound
    \/ NewCByteBufferAny

SpecPageMath == Init /\ [][NextPageMath]_vars

\* ----------------------------------- typed element access (SpecCBuffer)
\* A caller holds a CBuffer<T> whose constructor returned, every operating
\* system call having succeeded, and writes and reads elements inside the
\* virtual range.
FreshCBuffers(reqs) ==
    {CBuffer_Ctor0(os) : os \in OsAllOk}
        \cup {CBuffer_Ctor1(p, os) : p \in reqs, os \in OsAllOk}
        \cup {CBuffer_Ctor2(p, m, os) : p \in reqs, m \in Mults, os \in OsAllOk}

\* sizeof(T) divides the page size
ElemSizes == {s \in RecSizes : PAGE_SIZE % s = 0}

\* the physical sizes asked for: up to two pages
CBufferRequests == 0..(2 * PAGE_SIZE)

InitCBuffer ==
    /\ cbuf \in {CBuffer_OfType(r, s) : r \in FreshCBuffers(CBufferRequests), s \in ElemSizes}
    /\ bbuf = BAbsent
    /\ last = NoCall
    /\ pushed = <<>>
    /\ popped = <<>>

IsCBuffer(r) == r.status = "ready" /\ r.class = "CBuffer"

CBufWrite ==
    /\ IsCBuffer(cbuf)
    /\ \E i \in 0..(GetVItemCount(cbuf) - 1), t \in Tags :
          /\ cbuf' = CBuffer_Write(cbuf, i, Rec(t, cbuf.ElemSize), "fault")
          /\ last' = Call("Write", cbuf.ElemSize, i, Rec(t, cbuf.ElemSize))
    /\ UNCHANGED <<bbuf, pushed, popped>>

CBufRead ==
    /\ IsCBuffer(cbuf)
    /\ \E i \in 0..(GetVItemCount(cbuf) - 1) :
          LET res == CBuffer_Read(cbuf, i, "fault", NoJunk)
          IN  /\ cbuf' = res.r
              /\ last' = Call("Read", cbuf.ElemSize, i, res.data)
    /\ UNCHANGED <<bbuf, pushed, popped>>

NextCBuffer ==
    \/ CBufWrite
    \/ CBufRead

SpecCBuffer == InitCBuffer /\ [][NextCBuffer]_vars

\* ------------------------------- records across the end (SpecStraddle)
\* A caller moves the cursors of a ByteBuffer by pushing and popping records
\* of any legal sizes; pushed holds the record of the latest Push.
InitStraddle ==
    /\ cbuf = Absent
    /\ bbuf \in FreshByteBuffers(RingRequests)
    /\ last = NoCall
    /\ pushed = <<>>
    /\ popped = <<>>

StPush ==
    /\ bbuf.status = "ready"
    /\ \E s \in LegalSizes(bbuf.Capacity), t \in Tags :
          /\ bbuf' = ByteBuffer_Push(bbuf, Rec(t, s), "fault", NoJunk)
          /\ last' = Call("Push", s, bbuf.Head, Rec(t, s))
          /\ pushed' = <<Rec(t, s)>>
    /\ UNCHANGED <<cbuf, popped>>

StPop ==
    /\ bbuf.status = "ready"
    /\ \E s \in LegalSizes(bbuf.Capacity) :
          LET res == ByteBuffer_Pop(bbuf, s, "fault", NoJunk)
          IN  /\ bbuf' = res.r
              /\ last' = Call("Pop", s, bbuf.Tail, res.data)
    /\ UNCHANGED <<cbuf, pushed, popped>>

NextStraddle ==
    \/ StPush
    \/ StPop

SpecStraddle == InitStraddle /\ [][NextStraddle]_vars

\* ------------------------------------ reset and read back (SpecReset)
\* A caller pushes records on a fresh ring without overrunning the physical
\* size, pops some of them, calls Reset (once or more) and then pops a record
\* of the type first pushed.  pushed holds the records pushed, popped the
\* value returned by the Pop that follows Reset.
RsPush ==
    /\ IsRing(cbuf)
    /\ popped = <<>> /\ last.op # "Reset"
    /\ \E s \in LegalSizes(cbuf.PSize), t \in Tags :
          /\ Total(pushed) + s <= cbuf.PSize
          /\ cbuf' = CByteBuffer_Push(cbuf, Rec(t, s), "fault")
          /\ last' = Call("Push", s, cbuf.Head, Rec(t, s))
          /\ pushed' = Append(pushed, Rec(t, s))
    /\ UNCHANGED <<bbuf, popped>>

RsPop ==
    /\ IsRing(cbuf)
    /\ popped = <<>> /\ last.op # "Reset"
    /\ \E s \in LegalSizes(cbuf.PSize) :
          /\ cbuf.Tail + s <= Total(pushed)
          /\ LET res == CByteBuffer_Pop(cbuf, s, "fault", NoJunk)
             IN  /\ cbuf' = res.r
                 /\ last' = Call("Pop", s, cbuf.Tail, res.data)
    /\ UNCHANGED <<bbuf, pushed, popped>>

RsReset ==
    /\ IsRing(cbuf)
    /\ pushed # <<>> /\ popped = <<>>
    /\ cbuf' = CByteBuffer_Reset(cbuf)
    /\ last' = Call("Reset", 0, 0, <<>>)
    /\ UNCHANGED <<bbuf, pushed, popped>>

RsPopAfter ==
    /\ IsRing(cbuf)
    /\ last.op = "Reset"
    /\ LET s   == Len(pushed[1])
           res == CByteBuffer_Pop(cbuf, s, "fault", NoJunk)
       IN  /\ cbuf' = res.r
           /\ last' = Call("Pop", s, cbuf.Tail, res.data)
           /\ popped' = <<res.data>>
    /\ UNCHANGED <<bbuf, pushed>>

RsSplitPush ==
    /\ bbuf.status = "ready"
    /\ popped = <<>> /\ last.op # "Reset"
    /\ \E s \in LegalSizes(bbuf.Capacity), t \in Tags :
          /\ Total(pushed) + s <= bbuf.Capacity
          /\ bbuf' = ByteBuffer_Push(bbuf, Rec(t, s), "fault", NoJunk)
          /\ last' = Call("Push", s, bbuf.Head, Rec(t, s))
          /\ pushed' = Append(pushed, Rec(t, s))
    /\ UNCHANGED <<cbuf, popped>>

RsSplitPop ==
    /\ bbuf.status = "ready"
    /\ popped = <<>> /\ last.op # "Reset"
    /\ \E s \in LegalSizes(bbuf.Capacity) :
          /\ bbuf.Tail + s <= Total(pushed)
          /\ LET res == ByteBuffer_Pop(bbuf, s, "fault", NoJunk)
             IN  /\ bbuf' = res.r
                 /\ last' = Call("Pop", s, bbuf.Tail, res.data)
    /\ UNCHANGED <<cbuf, pushed, popped>>

RsSplitReset ==
    /\ bbuf.status = "ready"
    /\ pushed # <<>> /\ popped = <<>>
    /\ bbuf' = ByteBuffer_Reset(bbuf)
    /\ last' = Call("Reset", 0, 0, <<>>)
    /\ UNCHANGED <<cbuf, pushed, popped>>

RsSplitPopAfter ==
    /\ bbuf.status = "ready"
    /\ last.op = "Reset"
    /\ LET s   == Len(pushed[1])
           res == ByteBuffer_Pop(bbuf, s, "fault", NoJunk)
       IN  /\ bbuf' = res.r
           /\ last' = Call("Pop", s, bbuf.Tail, res.data)
           /\ popped' = <<res.data>>
    /\ UNCHANGED <<cbuf, pushed>>

NextReset ==
    \/ RsPush
    \/ RsPop
    \/ RsReset
    \/ RsPopAfter
    \/ RsSplitPush
    \/ RsSplitPop
    \/ RsSplitReset
    \/ RsSplitPopAfter

SpecReset == InitRing /\ [][NextReset]_vars

\* --------------------------------- the two rings side by side (SpecLockStep)
\* A caller holds a CByteBuffer and a ByteBuffer of the same physical size and
\* makes every call on both.  last is the call as made on the CByteBuffer;
\* popped holds the two values the latest Pop returned, the CByteBuffer's
\* first.
InitLockStep ==
    /\ cbuf \in FreshCByteBuffers(RingRequests)
    /\ bbuf \in {ByteBuffer_Ctor(cbuf.PSize, fill) : fill \in HeapContents(cbuf.PSize)}
    /\ last = NoCall
    /\ pushed = <<>>
    /\ popped = <<>>

\* The run is followed up to the first access outside the virtual range.
BothReady == IsRing(cbuf) /\ ~cbuf.oob /\ bbuf.status = "ready"

LsPush ==
    /\ BothReady
    /\ \E s \in LegalSizes(cbuf.PSize) :
       \E ub \in UbChoices(cbuf.Head, s, cbuf.VSize) :
          /\ cbuf' = CByteBuffer_Push(cbuf, Rec(1, s), ub)
          /\ bbuf' = ByteBuffer_Push(bbuf, Rec(1, s), "fault", NoJunk)
          /\ last' = Call("Push", s, cbuf.Head, Rec(1, s))
    /\ UNCHANGED <<pushed, popped>>

LsPop ==
    /\ BothReady
    /\ \E s \in LegalSizes(cbuf.PSize) :
       \E ub \in UbChoices(cbuf.Tail, s, cbuf.VSize),
          junk \in JunkChoices(cbuf.Tail, s, cbuf.VSize) :
          LET cres == CByteBuffer_Pop(cbuf, s, ub, junk)
              bres == ByteBuffer_Pop(bbuf, s, "fault", NoJunk)
          IN  /\ cbuf' = cres.r
              /\ bbuf' = bres.r
              /\ last' = Call("Pop", s, cbuf.Tail, cres.data)
              /\ popped' = <<cres.data, bres.data>>
    /\ UNCHANGED pushed

LsReset ==
    /\ BothReady
    /\ cbuf' = CByteBuffer_Reset(cbuf)
    /\ bbuf' = ByteBuffer_Reset(bbuf)
    /\ last' = Call("Reset", 0, 0, <<>>)
    /\ UNCHANGED <<pushed, popped>>

NextLockStep ==
    \/ LsPush
    \/ LsPop
    \/ LsReset

SpecLockStep == InitLockStep /\ [][NextLockStep]_vars

\* ------------------------------------ interleaved calls (SpecFifo)
\* A caller pushes and pops records of one size s dividing the physical size
\* on a fresh or reset ring, never popping more than was pushed and never
\* leaving more than the physical size unread.  pushed holds the records not
\* yet popped, oldest first; popped holds, for the latest Pop, the record due
\* and the value returned.
\* The record size of the run: chosen at the first call after construction
\* or Reset, the same afterwards.
RunSizes(P) == IF last.s = 0 THEN DividingSizes(P) ELSE {last.s}

FifoPush ==
    /\ IsRing(cbuf)
    /\ \E s \in RunSizes(cbuf.PSize), t \in Tags :
          /\ Total(pushed) + s <= cbuf.PSize
          /\ cbuf' = CByteBuffer_Push(cbuf, Rec(t, s), "fault")
          /\ last' = Call("Push", s, cbuf.Head, Rec(t, s))
          /\ pushed' = Append(pushed, Rec(t, s))
    /\ UNCHANGED <<bbuf, popped>>

FifoPop ==
    /\ IsRing(cbuf)
    /\ pushed # <<>>
    /\ LET s   == Len(pushed[1])
           res == CByteBuffer_Pop(cbuf, s, "fault", NoJunk)
       IN  /\ cbuf' = res.r
           /\ last' = Call("Pop", s, cbuf.Tail, res.data)
           /\ popped' = <<pushed[1], res.data>>
           /\ pushed' = Tail(pushed)
    /\ UNCHANGED bbuf

FifoReset ==
    /\ IsRing(cbuf)
    /\ cbuf' = CByteBuffer_Reset(cbuf)
    /\ last' = Call("Reset", 0, 0, <<>>)
    /\ pushed' = <<>>
    /\ popped' = <<>>
    /\ UNCHANGED bbuf

FifoSplitPush ==
    /\ bbuf.status = "ready"
    /\ \E s \in RunSizes(bbuf.Capacity), t \in Tags :
          /\ Total(pushed) + s <= bbuf.Capacity
          /\ bbuf' = ByteBuffer_Push(bbuf, Rec(t, s), "fault", NoJunk)
          /\ last' = Call("Push", s, bbuf.Head, Rec(t, s))
          /\ pushed' = Append(pushed, Rec(t, s))
    /\ UNCHANGED <<cbuf, popped>>

FifoSplitPop ==
    /\ bbuf.status = "ready"
    /\ pushed # <<>>
    /\ LET s   == Len(pushed[1])
           res == ByteBuffer_Pop(bbuf, s, "fault", NoJunk)
       IN  /\ bbuf' = res.r
           /\ last' = Call("Pop", s, bbuf.Tail, res.data)
           /\ popped' = <<pushed[1], res.data>>
           /\ pushed' = Tail(pushed)
    /\ UNCHANGED cbuf

FifoSplitReset ==
    /\ bbuf.status = "ready"
    /\ bbuf' = ByteBuffer_Reset(bbuf)
    /\ last' = Call("Reset", 0, 0, <<>>)
    /\ pushed' = <<>>
    /\ popped' = <<>>
    /\ UNCHANGED cbuf

NextFifo ==
    \/ FifoPush
    \/ FifoPop
    \/ FifoReset
    \/ FifoSplitPush
    \/ FifoSplitPop
    \/ FifoSplitReset

SpecFifo == InitOverwrite /\ [][NextFifo]_vars

\* --------------------------------- runs of one record type (SpecRun)
\* A caller pushes and pops records of one type R on a CByteBuffer, from
\* construction or Reset on; Reset ends the run and another type may follow.
\* The record size of the run: any legal size at its first call.
RunSizesAny(P) == IF last.s = 0 THEN LegalSizes(P) ELSE {last.s}

RunPush == CPush(RunSizesAny(cbuf.PSize), {1})
RunPop == CPop(RunSizesAny(cbuf.PSize))

NextRun ==
    \/ RunPush
    \/ RunPop
    \/ CReset

InitRun ==
    /\ cbuf \in FreshCByteBuffers(RingRequests)
    /\ bbuf = BAbsent
    /\ last = NoCall
    /\ pushed = <<>>
    /\ popped = <<>>

SpecRun == InitRun /\ [][NextRun]_vars

\* The alignments a record type of s bytes can have: powers of two that
\* divide s and the page size.
IsPowerOfTwo(a) == \E k \in 0..8 : a = 2^k
Alignments(s) ==
    {a \in 1..PAGE_SIZE : IsPowerOfTwo(a) /\ s % a = 0 /\ PAGE_SIZE % a = 0}

\* ------------------------------------- the typed array (SpecBuffer)
\* A caller holds a Buffer<T> of Count >= 1 elements and writes and reads
\* elements through operator[], with indices below and above Count.  bbuf
\* holds the Buffer<T>; last.c is the index and last.data the value written
\* or read.
Counts == 0..MaxCount
Indexes(count) == 0..(3 * count + 1)

InitBuffer ==
    /\ cbuf = Absent
    /\ bbuf \in UNION {{Buffer_Ctor(count, fill) : fill \in HeapContents(count)} : count \in Counts}
    /\ last = NoCall
    /\ pushed = <<>>
    /\ popped = <<>>

BufWrite ==
    /\ bbuf.status = "ready"
    /\ \E i \in Indexes(bbuf.Count), v \in Bytes :
       \E ub \in BufUbChoices(bbuf, i) :
          /\ bbuf' = Buffer_Write(bbuf, i, v, ub)
          /\ last' = Call("Write", 1, i, <<v>>)
    /\ UNCHANGED <<cbuf, pushed, popped>>

BufRead ==
    /\ bbuf.status = "ready"
    /\ \E i \in Indexes(bbuf.Count) :
       \E ub \in BufUbChoices(bbuf, i), junk \in BufJunkChoices(bbuf, i) :
          LET res == Buffer_Read(bbuf, i, ub, junk)
          IN  /\ bbuf' = res.r
              /\ last' = Call("Read", 1, i, res.data)
    /\ UNCHANGED <<cbuf, pushed, popped>>

\* The Buffer<T> goes out of scope.
DestroyBuffer ==
    /\ bbuf.status = "ready"
    /\ bbuf' = Buffer_Dtor(bbuf)
    /\ last' = Call("~Buffer", 0, 0, <<>>)
    /\ UNCHANGED <<cbuf, pushed, popped>>

NextBuffer ==
    \/ BufWrite
    \/ BufRead
    \/ DestroyBuffer

SpecBuffer == InitBuffer /\ [][NextBuffer]_vars

\* ------------------------------------- end of life (SpecLifetime)
\* A program constructs a CByteBuffer, a CBuffer<T> or a ByteBuffer, every
\* operating system call of the constructor having succeeded, may push
\* records into a ring, and lets the object go out of scope.  For the destructors that unmap, last.s
\* is the number of munmap calls the destructor made, last.c the length it
\* passed and last.data what it printed on stderr.
InitLifetime ==
    /\ \/ /\ cbuf \in FreshCByteBuffers(RingRequests) \cup FreshCBuffers(CBufferRequests)
          /\ bbuf = BAbsent
       \/ /\ cbuf = Absent
          /\ bbuf \in FreshByteBuffers(RingRequests)
    /\ last = NoCall
    /\ pushed = <<>>
    /\ popped = <<>>

DestroyCByteBuffer ==
    /\ IsRing(cbuf)
    /\ \E ok \in BOOLEAN, nulls \in BOOLEAN :
          LET res == CByteBuffer_Dtor(cbuf, ok, nulls)
          IN  /\ cbuf' = res.r
              /\ last' = Call("~CByteBuffer", res.munmaps, res.len, res.stderr)
    /\ UNCHANGED <<bbuf, pushed, popped>>

DestroyCBuffer ==
    /\ IsCBuffer(cbuf)
    /\ \E ok \in BOOLEAN, nulls \in BOOLEAN :
          LET res == CBuffer_Dtor(cbuf, ok, nulls)
          IN  /\ cbuf' = res.r
              /\ last' = Call("~CBuffer", res.munmaps, res.len, res.stderr)
    /\ UNCHANGED <<bbuf, pushed, popped>>

\* The ByteBuffer goes out of scope.
DestroyByteBuffer ==
    /\ bbuf.status = "ready"
    /\ bbuf' = ByteBuffer_Dtor(bbuf)
    /\ last' = Call("~ByteBuffer", 0, 0, <<>>)
    /\ UNCHANGED <<cbuf, pushed, popped>>

NextLifetime ==
    \/ RingPush
    \/ SplitPush
    \/ DestroyCByteBuffer
    \/ DestroyCBuffer
    \/ DestroyByteBuffer

SpecLifetime == InitLifetime /\ [][NextLifetime]_vars

\* ------------------------------------ bytes by index (SpecIndex)
\* A program reaches the bytes of a ring directly, through operator[],
\* without Push or Pop: no cursor moves.  last.c is the index and last.data
\* the byte written or read.
\* A byte of the ring is written or read through operator[], at an index
\* inside the range or one past its end.
CIndexStore ==
    /\ IsRing(cbuf)
    /\ \E i \in 0..cbuf.VSize, b \in Bytes :
       \E ub \in UbChoices(i, 1, cbuf.VSize) :
          /\ cbuf' = CByteBuffer_IndexStore(cbuf, i, b, ub)
          /\ last' = Call("[]=", 1, i, <<b>>)
    /\ UNCHANGED <<bbuf, pushed, popped>>

CIndexLoad ==
    /\ IsRing(cbuf)
    /\ \E i \in 0..cbuf.VSize :
       \E ub \in UbChoices(i, 1, cbuf.VSize),
          junk \in (IF i < cbuf.VSize THEN {0} ELSE Bytes) :
          LET res == CByteBuffer_IndexLoad(cbuf, i, ub, junk)
          IN  /\ cbuf' = res.r
              /\ last' = Call("[]", 1, i, <<res.b>>)
    /\ UNCHANGED <<bbuf, pushed, popped>>

BIndexStore ==
    /\ bbuf.status = "ready"
    /\ \E i \in 0..bbuf.Capacity, b \in Bytes :
       \E ub \in UbChoices(i, 1, bbuf.Capacity) :
          /\ bbuf' = ByteBuffer_IndexStore(bbuf, i, b, ub)
          /\ last' = Call("[]=", 1, i, <<b>>)
    /\ UNCHANGED <<cbuf, pushed, popped>>

BIndexLoad ==
    /\ bbuf.status = "ready"
    /\ \E i \in 0..bbuf.Capacity :
       \E ub \in UbChoices(i, 1, bbuf.Capacity),
          junk \in (IF i < bbuf.Capacity THEN {0} ELSE Bytes) :
          LET res == ByteBuffer_IndexLoad(bbuf, i, ub, junk)
          IN  /\ bbuf' = res.r
              /\ last' = Call("[]", 1, i, <<res.b>>)
    /\ UNCHANGED <<cbuf, pushed, popped>>

NextIndex ==
    \/ CIndexStore
    \/ CIndexLoad
    \/ BIndexStore
    \/ BIndexLoad

SpecIndex == InitRing /\ [][NextIndex]_vars

\* --------------------------------------- two threads pushing (SpecRace)
\* Two threads call Push<T> on one ring that no lock protects.  Nothing
\* orders the accesses of one thread to Head and to the bytes with those of
\* the other, so a Push is run one memory access at a time, the accesses of
\* the other thread falling anywhere between: each read of Head, the store
\* of each byte of the record, each write of Head.  How many times Head is
\* read depends on the build:
\*   "mem": every mention of Head in the source is a read or a write of the
\*          member (an unoptimised build);
\*   "reg": Head is read once on entry and kept in a register; the new
\*          value is written, and the wrapped value after it when the wrap
\*          applies (an optimised build).
\* Before the two calls the ring may have been filled by one thread.
\*   pushed: the records the two threads push, pushed[i] by thread i
\*   last.build: the build; last.start: the ring when the calls began
\*   last.thr[i]: thread i
\*       pc:   "call" (entered), "first", "addr", "store", "add", "addst",
\*             "cmp", "sub", "subst", "zero", "coldst", "done" (returned)
\*       h:    the Head it computed its store address from
\*       f:    how many bytes go to h, h+1, ...; the rest go to 0, 1, ...
\*             (firstPart on the cold path of ByteBuffer, else sizeof(T))
\*       hot:  the branch of ByteBuffer::Push it took
\*       k:    how many bytes of its record it has stored
\*       m:    which bytes (from 0) of its record it has stored
\*       reg:  the value of Head it read last
\*       base: the value of Head its Head += sizeof(T) started from
\*       solo: it entered after the other thread had returned
Threads == {1, 2}
Builds == {"mem", "reg"}
Entered == [pc |-> "call", h |-> 0, f |-> 0, hot |-> TRUE, k |-> 0, m |-> {},
            reg |-> 0, base |-> 0, solo |-> FALSE]
Racing == last.op = "Push||Push"
HeadLoadPcs == {"call", "first", "addr", "add", "cmp", "sub"}
HeadStorePcs == {"addst", "subst", "zero", "coldst"}

\* CByteBuffer::Push<T>, a step that reads Head (head): the thread afterwards
CByteBuffer_PushLoad(t, head, s, VSize, build) ==
    CASE t.pc = "call" -> [t EXCEPT !.h = head, !.f = s, !.reg = head, !.base = head,
                                    !.pc = "store"]
      [] t.pc = "add"  -> [t EXCEPT !.reg = head, !.base = head, !.pc = "addst"]
      [] t.pc = "cmp"  -> [t EXCEPT !.reg = head,
                                    !.pc = IF head >= VSize THEN "sub" ELSE "done"]
      [] t.pc = "sub"  -> [t EXCEPT !.reg = head, !.pc = "subst"]

\* CByteBuffer::Push<T>, a step that writes Head: [head |-> the value
\* written, t |-> the thread afterwards]
CByteBuffer_PushHeadStore_SubPSize(t, s, PSize, VSize, build) ==
    CASE t.pc = "addst" ->
             LET n == (t.reg + s) % SizeMod
             IN  [head |-> n,
                  t |-> [t EXCEPT !.reg = n,
                                  !.pc = IF build = "mem" THEN "cmp"
                                         ELSE IF n >= VSize THEN "subst" ELSE "done"]]
      [] t.pc = "subst" ->
             [head |-> (t.reg + SizeMod - PSize) % SizeMod, t |-> [t EXCEPT !.pc = "done"]]

CByteBuffer_PushHeadStore(t, s, PSize, VSize, build) ==
    CASE t.pc = "addst" ->
             LET n == (t.reg + s) % SizeMod
             IN  [head |-> n,
                  t |-> [t EXCEPT !.reg = n,
                                  !.pc = IF build = "mem" THEN "cmp"
                                         ELSE IF n >= VSize THEN "subst" ELSE "done"]]
      [] t.pc = "subst" ->
             [head |-> (t.reg + SizeMod - VSize) % SizeMod, t |-> [t EXCEPT !.pc = "done"]]

\* ByteBuffer::Push<T>, a step that reads Head
ByteBuffer_PushLoad(t, head, s, Capacity, build) ==
    CASE t.pc = "call" ->
             LET hot == (head + s) % SizeMod <= Capacity
             IN  IF build = "mem"
                 THEN [t EXCEPT !.reg = head, !.hot = hot,
                                !.pc = IF hot THEN "addr" ELSE "first"]
                 ELSE [t EXCEPT !.reg = head, !.hot = hot, !.h = head, !.base = head,
                                !.f = IF hot THEN s
                                      ELSE (Capacity + SizeMod - head) % SizeMod,
                                !.pc = "store"]
      [] t.pc = "first" -> [t EXCEPT !.reg = head,
                                     !.f = (Capacity + SizeMod - head) % SizeMod,
                                     !.pc = "addr"]
      [] t.pc = "addr"  -> [t EXCEPT !.reg = head, !.h = head,
                                     !.f = IF t.hot THEN s ELSE t.f,
                                     !.pc = "store"]
      [] t.pc = "add"   -> [t EXCEPT !.reg = head, !.base = head, !.pc = "addst"]
      [] t.pc = "cmp"   -> [t EXCEPT !.reg = head,
                                     !.pc = IF head = Capacity THEN "zero" ELSE "done"]

\* ByteBuffer::Push<T>, a step that writes Head
ByteBuffer_PushHeadStore(t, s, Capacity, build) ==
    CASE t.pc = "addst" ->
             LET n == (t.reg + s) % SizeMod
             IN  [head |-> n,
                  t |-> [t EXCEPT !.reg = n,
                                  !.pc = IF build = "mem" THEN "cmp"
                                         ELSE IF n = Capacity THEN "zero" ELSE "done"]]
      [] t.pc = "zero"   -> [head |-> 0, t |-> [t EXCEPT !.pc = "done"]]
      [] t.pc = "coldst" ->
             [head |-> (s + SizeMod - t.f) % SizeMod, t |-> [t EXCEPT !.pc = "done"]]

\* where byte k (from 0) of the record of a thread goes: Data[PushByteAt]
PushByteAt(t, k) == IF k < t.f THEN (t.h + k) % SizeMod ELSE k - t.f

\* The bytes (from 0) of its record that a thread may store next.  The typed
\* store of CByteBuffer::Push and of the hot path of ByteBuffer::Push writes
\* the record from its first byte to its last.  The cold path of
\* ByteBuffer::Push makes two calls of memcpy, bytes 0..f-1 and then the
\* rest.  memcpy promises no order and no single store of a byte: the
\* library copies a short block with overlapping stores (a block of two
\* bytes is stored whole and its first byte then stored again), so a call
\* stores any byte of its block, again as well, and the next call starts
\* when every byte of the block was stored.
PushByteNext(t, s) ==
    LET firstPart  == 0..(t.f - 1)
        secondPart == t.f..(s - 1)
    IN  IF t.hot THEN {t.k}
        ELSE IF t.m \cap secondPart # {} THEN secondPart
        ELSE IF firstPart \subseteq t.m THEN firstPart \cup secondPart
        ELSE firstPart

\* the thread after it stored byte j of its record, the last byte of the
\* record to be stored sending it on to the update of Head
PushByteStored(t, j, s, build) ==
    [t EXCEPT !.m = t.m \cup {j},
              !.k = Cardinality(t.m \cup {j}),
              !.pc = IF Cardinality(t.m \cup {j}) < s THEN "store"
                     ELSE IF ~t.hot THEN "coldst"
                     ELSE IF build = "mem" THEN "add" ELSE "addst"]

RaceRing == IF IsRing(cbuf) THEN cbuf ELSE bbuf
HeadNow == RaceRing.Head
RaceSize == IF IsRing(cbuf) THEN cbuf.VSize ELSE bbuf.Capacity
RaceAlive == IsRing(cbuf) \/ bbuf.status = "ready"

\* The rings the two threads share: built by any constructor from a request
\* of up to two pages.
RaceRequests == 1..(2 * PAGE_SIZE)

InitRace ==
    /\ \/ cbuf \in FreshCByteBuffers(RaceRequests) /\ bbuf = BAbsent
       \/ cbuf = Absent /\ bbuf \in FreshByteBuffers(RaceRequests)
    /\ last = NoCall
    /\ pushed = <<>>
    /\ popped = <<>>

\* one thread pushed a record before the two calls
RacePrefill ==
    /\ last.op = "none"
    /\ \/ RingPush
       \/ SplitPush

\* both threads enter Push<T> with records of one type
RaceBegin ==
    /\ ~Racing
    /\ RaceAlive
    /\ \E s \in LegalSizes(IF IsRing(cbuf) THEN cbuf.PSize ELSE bbuf.Capacity),
          build \in Builds :
          /\ last' = [op |-> "Push||Push", s |-> s, c |-> HeadNow, data |-> <<>>,
                      thr |-> [i \in Threads |-> Entered],
                      build |-> build, start |-> RaceRing]
          /\ pushed' = <<Rec(1, s), Rec(2, s)>>
    /\ UNCHANGED <<cbuf, bbuf, popped>>

\* thread i reads Head
RaceLoadHead(i) ==
    /\ Racing /\ RaceAlive
    /\ last.thr[i].pc \in HeadLoadPcs
    /\ LET t  == [last.thr[i] EXCEPT
                     !.solo = IF @ THEN @
                              ELSE last.thr[i].pc = "call" /\ last.thr[3 - i].pc = "done"]
           t1 == IF IsRing(cbuf)
                 THEN CByteBuffer_PushLoad(t, cbuf.Head, last.s, cbuf.VSize, last.build)
                 ELSE ByteBuffer_PushLoad(t, bbuf.Head, last.s, bbuf.Capacity, last.build)
       IN  last' = [last EXCEPT !.thr[i] = t1]
    /\ UNCHANGED <<cbuf, bbuf, pushed, popped>>

\* thread i stores a byte of its record: the next one, or on the cold path
\* of ByteBuffer::Push any byte of the block that memcpy is copying, also
\* when every byte was stored and Head is not yet written.  A thread on the
\* cold path whose firstPart exceeds sizeof(T) (Head changed between its
\* test and its subtraction) makes its two copies with a wrapped secondPart:
\* they leave the record and the allocation, and are one step with the
\* outcomes of such a copy.  The second copy runs over all of Data, so Data
\* ends holding one foreign byte for each of its bytes.
RaceStoreByte(i) ==
    /\ Racing /\ RaceAlive
    /\ LET t == last.thr[i]
       IN  \/ /\ IsRing(cbuf)
              /\ t.pc = "store"
              /\ \E k \in PushByteNext(t, last.s) :
                    /\ \E ub \in UbChoices(PushByteAt(t, k), 1, cbuf.VSize) :
                          cbuf' = CByteBuffer_StoreByte(cbuf, PushByteAt(t, k),
                                                        pushed[i][k + 1], ub)
                    /\ last' = [last EXCEPT !.thr[i] =
                                    PushByteStored(t, k, last.s, last.build)]
              /\ UNCHANGED bbuf
           \/ /\ ~IsRing(cbuf)
              /\ t.pc = "store" \/ (t.pc = "coldst" /\ ~t.hot)
              /\ t.f <= last.s
              /\ \E k \in PushByteNext(t, last.s) :
                    /\ \E ub \in UbChoices(PushByteAt(t, k), 1, bbuf.Capacity) :
                          bbuf' = ByteBuffer_MemcpyIn(bbuf, PushByteAt(t, k), pushed[i],
                                                      k, 1, ub, NoJunk)
                    /\ last' = [last EXCEPT !.thr[i] =
                                    PushByteStored(t, k, last.s, last.build)]
              /\ UNCHANGED cbuf
           \/ /\ ~IsRing(cbuf)
              /\ t.pc = "store"
              /\ t.f > last.s
              /\ \E ub \in UbOutcomes, junk \in [1..bbuf.Capacity -> Bytes] :
                    bbuf' = ByteBuffer_MemcpyIn(
                                ByteBuffer_MemcpyIn(bbuf, t.h, pushed[i], 0, t.f, ub, junk),
                                0, pushed[i], t.f, (last.s + SizeMod - t.f) % SizeMod,
                                ub, junk)
              /\ last' = [last EXCEPT !.thr[i].k = last.s,
                                       !.thr[i].m = 0..(last.s - 1),
                                       !.thr[i].pc = "coldst"]
              /\ UNCHANGED cbuf
    /\ UNCHANGED <<pushed, popped>>

\* thread i writes Head
RaceStoreHead(i) ==
    /\ Racing /\ RaceAlive
    /\ last.thr[i].pc \in HeadStorePcs
    /\ \/ /\ IsRing(cbuf)
          /\ LET st == CByteBuffer_PushHeadStore(last.thr[i], last.s, cbuf.PSize,
                                                 cbuf.VSize, last.build)
             IN  /\ cbuf' = [cbuf EXCEPT !.Head = st.head]
                 /\ last' = [last EXCEPT !.thr[i] = st.t]
          /\ UNCHANGED bbuf
       \/ /\ ~IsRing(cbuf)
          /\ LET st == ByteBuffer_PushHeadStore(last.thr[i], last.s, bbuf.Capacity,
                                                last.build)
             IN  /\ bbuf' = [bbuf EXCEPT !.Head = st.head]
                 /\ last' = [last EXCEPT !.thr[i] = st.t]
          /\ UNCHANGED cbuf
    /\ UNCHANGED <<pushed, popped>>

NextRace ==
    \/ RacePrefill
    \/ RaceBegin
    \/ \E i \in Threads : RaceLoadHead(i)
    \/ \E i \in Threads : RaceStoreByte(i)
    \/ \E i \in Threads : RaceStoreHead(i)

SpecRace == InitRace /\ [][NextRace]_vars

\* both calls returned
BothDone ==
    /\ Racing /\ RaceAlive
    /\ \A i \in Threads : last.thr[i].pc = "done"

\* the ring after thread i and then thread j pushed, one call after the
\* other, from the ring the two calls began with
SeqPush(i, j) ==
    IF IsRing(cbuf)
    THEN CByteBuffer_Push(CByteBuffer_Push(last.start, pushed[i], "silent"),
                          pushed[j], "silent")
    ELSE ByteBuffer_Push(ByteBuffer_Push(last.start, pushed[i], "silent", NoJunk),
                         pushed[j], "silent", NoJunk)

\* the bytes of the ring: the memory object of a CByteBuffer, the block of a
\* ByteBuffer
RingBytes(r) == IF IsRing(cbuf) THEN r.file ELSE r.Data

\* the byte of the ring that offset pos of the ring's range is, for a pos
\* inside the range
RingCell(pos) ==
    IF IsRing(cbuf)
    THEN cbuf.vm[pos \div PAGE_SIZE].fpage * PAGE_SIZE + (pos % PAGE_SIZE)
    ELSE pos

\* the bytes k (from 0) of the record of thread i that went to cell q
BytesTo(i, q) ==
    {k \in 0..(last.s - 1) :
        /\ PushByteAt(last.thr[i], k) < RaceSize
        /\ RingCell(PushByteAt(last.thr[i], k)) = q}

\* the record of thread i is in the ring, whole, where the thread put it
Intact(i) ==
    \A k \in 0..(last.s - 1) :
        /\ PushByteAt(last.thr[i], k) < RaceSize
        /\ RingBytes(RaceRing)[RingCell(PushByteAt(last.thr[i], k))] = pushed[i][k + 1]

\* both threads computed the places of their bytes from the same values
SamePlace ==
    /\ last.thr[1].h = last.thr[2].h
    /\ last.thr[1].f = last.thr[2].f
    /\ last.thr[1].f <= last.s

\* two records of the type pushed fit the ring
TwoFit == 2 * last.s <= (IF IsRing(cbuf) THEN cbuf.PSize ELSE bbuf.Capacity)

\* both threads took the path that adds sizeof(T) to Head, and started the
\* addition from the same value of Head
SameBase ==
    /\ last.thr[1].hot /\ last.thr[2].hot
    /\ last.thr[1].base = last.thr[2].base

\* ================================================================ claims
Constructed == IsCByteBuffer /\ cbuf.status = "ready"
Sized(r) == DOMAIN r.file = 0..(r.PSize - 1)
AllUnmapped(r) == \A p \in DOMAIN r.vm : r.vm[p].prot = "unmapped"

\* C1 (as claimed): records pushed on a fresh or reset CByteBuffer with a
\* total size of at most VSize are popped back exactly, in order.
C1_RoundTripV ==
    (IsCByteBuffer /\ Total(pushed) <= cbuf.VSize) =>
        cbuf.status = "ready" /\ IsPrefix(popped, pushed)

\* C1 (amended): records pushed on a fresh or reset CByteBuffer with a total
\* size of at most PSize are popped back exactly, in order.
C1_RoundTripP ==
    (IsCByteBuffer /\ Total(pushed) <= cbuf.PSize) =>
        cbuf.status = "ready" /\ IsPrefix(popped, pushed)

\* C1 witness: records of two sizes that fill the physical size exactly have
\* all been popped back.
C1_Witness ==
    /\ Constructed
    /\ Len(pushed) >= 2
    /\ Len(pushed[1]) # Len(pushed[2])
    /\ Total(pushed) = cbuf.PSize
    /\ popped = pushed

\* C2: records pushed on a fresh or reset ByteBuffer with a total size of at
\* most Capacity are popped back exactly, in order; when the total equals
\* Capacity, Head has wrapped to 0.
C2_SplitRoundTrip ==
    (bbuf.status # "absent" /\ Total(pushed) <= bbuf.Capacity) =>
        /\ bbuf.status = "ready"
        /\ IsPrefix(popped, pushed)
        /\ (Total(pushed) = bbuf.Capacity => bbuf.Head = 0)

\* C2 witness: records of two sizes that fill the capacity exactly, Head
\* back at 0, have all been popped back.
C2_Witness ==
    /\ bbuf.status = "ready"
    /\ Len(pushed) >= 2
    /\ Len(pushed[1]) # Len(pushed[2])
    /\ Total(pushed) = bbuf.Capacity
    /\ bbuf.Head = 0
    /\ popped = pushed

\* C3 (as claimed): pushing A and then k copies of B of the same size s (s
\* dividing the physical size, k*s >= physical size) without a Pop never
\* fails and keeps the cursors valid, and one Pop then returns B, not A.
C3_Overwrite ==
    /\ IsCByteBuffer =>
          /\ cbuf.status = "ready"
          /\ cbuf.Head < cbuf.VSize /\ cbuf.Tail < cbuf.VSize
    /\ (bbuf.status # "absent" /\ pushed # <<>>) =>
          /\ bbuf.status = "ready"
          /\ bbuf.Head < bbuf.Capacity /\ bbuf.Tail < bbuf.Capacity
    /\ popped # <<>> =>
          /\ popped[1] = Rec(2, Len(pushed[1]))
          /\ popped[1] # pushed[1]

\* C4 (as claimed): in every constructed CByteBuffer (taken with its memory
\* object sized to PSize) every offset i of [0, VSize) is mapped read/write
\* onto physical byte i mod PSize: a byte stored at i is the byte loaded at
\* every offset of [0, VSize) congruent to i modulo PSize.
C4_Aliasing ==
    (Constructed /\ Sized(cbuf)) =>
        \A i \in 0..(cbuf.VSize - 1) :
            LET w == CByteBuffer_StoreByte(cbuf, i, 1, "fault")
            IN  /\ w.status = "ready"
                /\ w.file[i % cbuf.PSize] = 1
                /\ \A j \in 0..(cbuf.VSize - 1) :
                      (j % cbuf.PSize = i % cbuf.PSize) =>
                          LET l == CByteBuffer_LoadByte(w, j, "fault", 0)
                          IN  l.r.status = "ready" /\ l.b = 1

\* C5 (as claimed): every constructed CByteBuffer has PSize > 0, PSize a
\* multiple of the page size, VSize >= PSize and VSize a multiple of PSize.
C5_SizeInvariants ==
    Constructed =>
        /\ cbuf.PSize > 0
        /\ cbuf.PSize % PAGE_SIZE = 0
        /\ cbuf.VSize >= cbuf.PSize
        /\ cbuf.VSize % cbuf.PSize = 0

\* C6: Head = Tail = 0 after construction, and after any calls of Push, Pop
\* and Reset with records no larger than PSize both cursors of a CByteBuffer
\* are in [0, VSize).
C6_CursorRange ==
    IsCByteBuffer =>
        /\ (last.op = "none" => cbuf.Head = 0 /\ cbuf.Tail = 0)
        /\ 0 <= cbuf.Head /\ cbuf.Head < cbuf.VSize
        /\ 0 <= cbuf.Tail /\ cbuf.Tail < cbuf.VSize

\* C6 witness: a Push has taken Head over the end of the virtual range and
\* Head was wrapped.
C6_Witness ==
    /\ Constructed
    /\ last.op = "Push"
    /\ last.c + last.s >= cbuf.VSize
    /\ cbuf.Head < last.c

\* C7: a Push (Pop) of s bytes that returns moves Head (Tail) from c to
\* (c + s) mod VSize in a CByteBuffer and to (c + s) mod Capacity in a
\* ByteBuffer.
C7_CursorWrap ==
    /\ (Constructed /\ last.op = "Push") =>
            cbuf.Head = (last.c + last.s) % cbuf.VSize
    /\ (Constructed /\ last.op = "Pop") =>
            cbuf.Tail = (last.c + last.s) % cbuf.VSize
    /\ (bbuf.status = "ready" /\ last.op = "Push") =>
            bbuf.Head = (last.c + last.s) % bbuf.Capacity
    /\ (bbuf.status = "ready" /\ last.op = "Pop") =>
            bbuf.Tail = (last.c + last.s) % bbuf.Capacity

\* C7 witness: a ByteBuffer Push straddled the end of the allocation and
\* left Head inside it, past 0.
C7_Witness ==
    /\ bbuf.status = "ready"
    /\ last.op = "Push"
    /\ last.c + last.s > bbuf.Capacity
    /\ bbuf.Head = last.c + last.s - bbuf.Capacity
    /\ bbuf.Head > 0

\* C8 (as claimed): a Push or Pop of a record larger than the physical size
\* (PSize, Capacity) is rejected with an error instead of being carried out.
C8_OversizeRejected ==
    Oversized =>
        IF bbuf.status = "absent" THEN cbuf.status = "threw"
        ELSE bbuf.status = "threw"

\* C9 (as claimed): when memfd_create fails, the constructor throws with the
\* virtual reservation unmapped: no page of the range stays mapped.
C9_MemfdFailureUnmaps ==
    (cbuf.status = "threw" /\ cbuf.err = "memfd_create failed") => AllUnmapped(cbuf)

\* C10: when the mapping of a slot fails in CByteBuffer::Allocate, the
\* constructor throws with the whole range [Data, Data+VSize) unmapped and
\* the memfd closed.
C10_MapFailureCleansUp ==
    (IsCByteBuffer /\ cbuf.status = "threw" /\ cbuf.err = "Physical mapping failed") =>
        /\ AllUnmapped(cbuf)
        /\ cbuf.fd = "closed"

\* C10 witness: a slot mapping failed after earlier slots had been installed,
\* in a range that PSize does not divide.
C10_Witness ==
    /\ IsCByteBuffer
    /\ cbuf.status = "threw"
    /\ cbuf.err = "Physical mapping failed"
    /\ cbuf.slots >= 1
    /\ cbuf.VSize % cbuf.PSize # 0

\* C11 (as claimed): when ftruncate fails, the constructor of a CByteBuffer or
\* CBuffer<T> throws; no ring is returned whose memory object was not sized
\* to PSize.
C11_UnsizedNeverReturned ==
    cbuf.status = "ready" => Sized(cbuf)

\* C18 (as claimed): a CByteBuffer built by the two-argument constructor with
\* v_mult >= 1 has PSize = ToNextPageSize(p_req) and VSize = v_mult * PSize.
C18_CustomVSize ==
    (Constructed /\ last.op = "CByteBuffer(p,m)" /\ last.c >= 1) =>
        /\ cbuf.PSize = ToNextPageSize(last.s)
        /\ cbuf.VSize = last.c * cbuf.PSize

\* C19 (as claimed): a CByteBuffer built by the default or the one-argument
\* constructor has the documented default virtual size (4 GiB) whenever its
\* physical size is not larger than that.
C19_DefaultVSize ==
    (Constructed /\ last.op \in {"CByteBuffer()", "CByteBuffer(p)"}
                 /\ cbuf.PSize <= DefaultVSize) =>
        cbuf.VSize = DefaultVSize

\* C20 (as claimed): ToNextPageSize(n) is the smallest m >= max(n, page size)
\* that is a multiple of the page size: the page size for n below it, n itself
\* when n is a positive multiple, the next multiple above n otherwise.
C20_PageRounding ==
    last.op = "ToNextPageSize" =>
        LET n == last.s
            m == last.data[1]
        IN  /\ m >= n /\ m >= PAGE_SIZE /\ m % PAGE_SIZE = 0
            /\ \A k \in 0..(m - 1) :
                  ~(k >= n /\ k >= PAGE_SIZE /\ k % PAGE_SIZE = 0)
            /\ (n < PAGE_SIZE => m = PAGE_SIZE)
            /\ (n > 0 /\ n % PAGE_SIZE = 0 => m = n)
            /\ (n > PAGE_SIZE /\ n % PAGE_SIZE # 0 =>
                    m = n + PAGE_SIZE - (n % PAGE_SIZE))

\* C16: in a CBuffer<T> of one page of physical size (and likewise of two
\* pages), its memory object sized and sizeof(T) dividing the page size,
\* elements i and i + k*GetPItemCount() are the same storage for
\* i < GetPItemCount() and k < GetPageCount(): after a write through any of
\* these indices a read through every one of them returns the value written,
\* and a read through an index returns what a read through its base index
\* returns.
C16_TypedAliasing ==
    (cbuf.class = "CBuffer" /\ last.op # "none") =>
        /\ cbuf.status = "ready"
        /\ last.op = "Write" =>
              \A k \in 0..(GetPageCount(cbuf) - 1) :
                 LET j == (last.c % GetPItemCount(cbuf)) + k * GetPItemCount(cbuf)
                     l == CBuffer_Read(cbuf, j, "fault", NoJunk)
                 IN  l.r.status = "ready" /\ l.data = last.data
        /\ last.op = "Read" =>
              last.data = CBuffer_Read(cbuf, last.c % GetPItemCount(cbuf), "fault", NoJunk).data

\* C16 witness: an element of a one-page CBuffer<T> was written through an
\* alias index (k >= 1) and its base index reads the value written.
C16_Witness ==
    /\ cbuf.class = "CBuffer" /\ cbuf.status = "ready"
    /\ cbuf.PSize = PAGE_SIZE
    /\ last.op = "Write"
    /\ last.c >= GetPItemCount(cbuf)
    /\ CBuffer_Read(cbuf, last.c % GetPItemCount(cbuf), "fault", NoJunk).data = last.data

\* C14 (as claimed): once a ring is constructed, every Push, Pop and Reset with
\* records no larger than the physical size is carried out and returns: no
\* call fails, whatever the cursors are (full, empty or fresh ring).
C14_NeverFails ==
    /\ cbuf.status # "absent" => cbuf.status = "ready"
    /\ bbuf.status # "absent" => bbuf.status = "ready"

\* C15: in a ByteBuffer with Capacity > 0, after any calls of Push, Pop and
\* Reset with records no larger than Capacity, 0 <= Head < Capacity and
\* 0 <= Tail < Capacity.
C15_SplitCursorRange ==
    (bbuf.status # "absent" /\ bbuf.Capacity > 0) =>
        /\ 0 <= bbuf.Head /\ bbuf.Head < bbuf.Capacity
        /\ 0 <= bbuf.Tail /\ bbuf.Tail < bbuf.Capacity

\* C15 witness: a Pop that started past offset 0 ended exactly at Capacity and
\* Tail was wrapped to 0.
C15_Witness ==
    /\ bbuf.status = "ready"
    /\ last.op = "Pop"
    /\ last.c > 0
    /\ last.c + last.s = bbuf.Capacity
    /\ bbuf.Tail = 0

\* C12: in a ByteBuffer of capacity P, a Push at Head = c of a record of
\* s <= P bytes with c + s > P stores its first P - c bytes at [c, P) and the
\* other s - (P - c) bytes at [0, s - (P - c)) and leaves Head = s - (P - c);
\* a Pop of s bytes at Tail = c, the cursor that record was pushed at, returns
\* the record byte for byte.
C12_Straddle ==
    LET P == bbuf.Capacity
        c == last.c
        s == last.s
        first == P - c
    IN  (bbuf.status # "absent" /\ c + s > P) =>
            /\ bbuf.status = "ready"
            /\ last.op = "Push" =>
                  /\ \A i \in 1..first : bbuf.Data[c + i - 1] = last.data[i]
                  /\ \A i \in (first + 1)..s : bbuf.Data[i - first - 1] = last.data[i]
                  /\ bbuf.Head = s - first
            /\ (/\ last.op = "Pop"
                /\ pushed # <<>>
                /\ s = Len(pushed[1])
                /\ c = (bbuf.Head - s) % P) =>
                  last.data = pushed[1]

\* C12 witness: a record of at least two bytes pushed across the end of the
\* allocation has been popped from the cursor it was pushed at.
C12_Witness ==
    /\ bbuf.status = "ready"
    /\ last.op = "Pop"
    /\ last.c + last.s > bbuf.Capacity
    /\ pushed # <<>>
    /\ last.s = Len(pushed[1])
    /\ last.s >= 2
    /\ last.c = (bbuf.Head - last.s) % bbuf.Capacity
    /\ last.data = pushed[1]

\* C17: Reset sets Head = 0 and Tail = 0 and changes nothing else (the bytes
\* of the buffer, PSize, VSize or Capacity, Data and its mappings stay as they
\* were), so the first Pop after Reset returns the record that was pushed at
\* offset 0 before Reset.
C17_ResetFrame ==
    /\ [][last'.op = "Reset" =>
            /\ cbuf'.Head = 0 /\ cbuf'.Tail = 0
            /\ cbuf' = [cbuf EXCEPT !.Head = 0, !.Tail = 0]
            /\ bbuf'.Head = 0 /\ bbuf'.Tail = 0
            /\ bbuf' = [bbuf EXCEPT !.Head = 0, !.Tail = 0]]_vars
    /\ [](popped # <<>> => popped[1] = pushed[1])

\* C17 witness: after at least two records were pushed and Tail had left 0,
\* Reset was called and the Pop that followed returned the first record.
C17_Witness ==
    /\ Len(pushed) >= 2
    /\ popped = <<pushed[1]>>
    /\ last.op = "Pop" /\ last.c = 0
    /\ (IsRing(cbuf) \/ bbuf.status = "ready")

\* C13 (as claimed): a ByteBuffer of capacity P and a CByteBuffer of physical
\* size P that receive the same calls of Push, Pop and Reset with records no
\* larger than P behave alike: every call returns on both, every Pop returns
\* the same value from both, and each ByteBuffer cursor equals the CByteBuffer
\* cursor modulo P.
C13_Equivalent ==
    (cbuf.status # "absent" /\ bbuf.status # "absent") =>
        /\ cbuf.status = "ready" /\ bbuf.status = "ready"
        /\ (last.op = "Pop" => popped[1] = popped[2])
        /\ bbuf.Head = cbuf.Head % cbuf.PSize
        /\ bbuf.Tail = cbuf.Tail % cbuf.PSize

\* C21: in either ring, from any state reached by Push, Pop and Reset, Reset
\* twice leaves exactly the state that Reset once leaves (cursors, bytes,
\* sizes, mappings): the state after a Reset is unchanged by another Reset.
C21_ResetIdempotent ==
    /\ CByteBuffer_Reset(CByteBuffer_Reset(cbuf)) = CByteBuffer_Reset(cbuf)
    /\ ByteBuffer_Reset(ByteBuffer_Reset(bbuf)) = ByteBuffer_Reset(bbuf)
    /\ last.op = "Reset" =>
          /\ CByteBuffer_Reset(cbuf) = cbuf
          /\ ByteBuffer_Reset(bbuf) = bbuf

\* C21 witness: Reset was called on a CByteBuffer that holds pushed bytes.
C21_Witness ==
    /\ IsRing(cbuf)
    /\ last.op = "Reset"
    /\ \E i \in DOMAIN cbuf.file : cbuf.file[i] # 0

\* C23 (as claimed): with records no larger than PSize, of sizes that may
\* differ and need not divide VSize, no Push or Pop of a CByteBuffer touches
\* a byte outside [Data, Data+VSize).
C23_InBounds ==
    IsCByteBuffer => ~cbuf.oob

\* C25 (as claimed): when the mapping of a slot fails in CBuffer<T>::Allocate,
\* the constructor throws with the whole range [Data, Data+VSize) unmapped and
\* the memfd closed.
C25_TypedMapFailureCleansUp ==
    (cbuf.class = "CBuffer" /\ cbuf.status = "threw"
                            /\ cbuf.err = "Physical mapping failed") =>
        /\ AllUnmapped(cbuf)
        /\ cbuf.fd = "closed"

\* C30 (as claimed): for every size_t value v, ToNextPageSize(v) >= v and
\* >= the page size, so the one-argument constructor never ends with PSize = 0
\* or PSize below the size asked for.
C30_NoWrap ==
    /\ last.op = "ToNextPageSize" =>
          /\ last.data[1] >= last.s
          /\ last.data[1] >= PAGE_SIZE
    /\ (IsCByteBuffer /\ last.op = "CByteBuffer(p)") =>
          /\ cbuf.PSize # 0
          /\ cbuf.PSize >= last.s

\* C24 (as claimed): on either ring of physical size P, with records of one
\* size s dividing P pushed and popped in any interleaving from a fresh or
\* reset ring (never more pops than pushes, never more than P bytes unread),
\* every call returns, every Pop returns the oldest record not yet popped,
\* and Head = Tail whenever as many records were popped as pushed.
C24_InterleavedFifo ==
    /\ cbuf.status # "absent" => cbuf.status = "ready"
    /\ bbuf.status # "absent" => bbuf.status = "ready"
    /\ popped # <<>> => popped[2] = popped[1]
    /\ pushed = <<>> => (cbuf.Head = cbuf.Tail /\ bbuf.Head = bbuf.Tail)

\* C27: during a run of Push<R> and Pop<R> of one record type R on a
\* CByteBuffer whose cursors started at 0 (construction or Reset), Head and
\* Tail are multiples of every alignment R can have (a power of two dividing
\* sizeof(R) and the page size), also after a cursor wrapped at VSize.
C27_AlignmentKept ==
    IsCByteBuffer =>
        \A a \in Alignments(last.s) :
            cbuf.Head % a = 0 /\ cbuf.Tail % a = 0

\* C27 witness: a Push of a record with an alignment above 1 took Head over
\* the end of the virtual range, and Head wrapped to a multiple of it.
C27_Witness ==
    /\ Constructed
    /\ last.op = "Push"
    /\ last.c + last.s >= cbuf.VSize
    /\ cbuf.Head < last.c
    /\ \E a \in Alignments(last.s) : a > 1 /\ cbuf.Head % a = 0

\* C28: in either ring a Push that returns changes only Head and the bytes
\* of the sizeof(R) offsets starting at the old Head (in a CByteBuffer the
\* physical bytes those offsets are mapped onto) and leaves Tail as it was; a
\* Pop that returns changes only Tail; neither changes PSize, VSize, Capacity,
\* Data or its mappings.
C28_PushPopFrame ==
    [][/\ (IsRing(cbuf) /\ cbuf'.status = "ready" /\ last'.op = "Push") =>
            /\ cbuf'.Tail = cbuf.Tail
            /\ [cbuf' EXCEPT !.Head = cbuf.Head, !.file = cbuf.file,
                             !.oob = cbuf.oob] = cbuf
            /\ \A f \in DOMAIN cbuf.file :
                  cbuf'.file[f] # cbuf.file[f] =>
                      \E i \in 0..(last'.s - 1) : f = (cbuf.Head + i) % cbuf.PSize
       /\ (IsRing(cbuf) /\ cbuf'.status = "ready" /\ last'.op = "Pop") =>
            /\ cbuf'.Head = cbuf.Head
            /\ cbuf'.file = cbuf.file
            /\ [cbuf' EXCEPT !.Tail = cbuf.Tail, !.oob = cbuf.oob] = cbuf
       /\ (bbuf.status = "ready" /\ bbuf'.status = "ready" /\ last'.op = "Push") =>
            /\ bbuf'.Tail = bbuf.Tail
            /\ [bbuf' EXCEPT !.Head = bbuf.Head, !.Data = bbuf.Data] = bbuf
            /\ \A f \in DOMAIN bbuf.Data :
                  bbuf'.Data[f] # bbuf.Data[f] =>
                      \E i \in 0..(last'.s - 1) : f = (bbuf.Head + i) % bbuf.Capacity
       /\ (bbuf.status = "ready" /\ bbuf'.status = "ready" /\ last'.op = "Pop") =>
            /\ bbuf'.Head = bbuf.Head
            /\ bbuf'.Data = bbuf.Data
            /\ [bbuf' EXCEPT !.Tail = bbuf.Tail] = bbuf]_vars

\* C28 witness: a Push through an alias (Head at or past PSize) stored its
\* record while Tail stood at a position other than 0.
C28_Witness ==
    /\ Constructed
    /\ last.op = "Push"
    /\ last.c >= cbuf.PSize
    /\ cbuf.Tail # 0
    /\ cbuf.file[last.c % cbuf.PSize] = last.data[1]

\* C29 (as claimed): for every Count >= 1 and every index i, operator[](i) of
\* a Buffer<T> refers to element i mod Count, inside [0, Count): a value
\* written through index i is the value of element i mod Count, and a read
\* through index i returns element i mod Count.
C29_CircularArray ==
    bbuf.Count >= 1 =>
        /\ ~bbuf.oob
        /\ last.op \in {"Write", "Read"} =>
              Buffer_Index(bbuf.Count, last.c) = last.c % bbuf.Count
        /\ last.op = "Write" => bbuf.Data[last.c % bbuf.Count] = last.data[1]
        /\ last.op = "Read" => last.data[1] = bbuf.Data[last.c % bbuf.Count]

\* C22 (as claimed): the destructor of a successfully constructed
\* CByteBuffer or CBuffer<T> makes exactly one munmap call, over the whole
\* range [Data, Data+VSize), and Data is null afterwards, so that the range
\* is released at most once: running the destructor body again makes no
\* further munmap call; when munmap succeeds no page of the range stays
\* mapped; when it fails the only effect is the message on stderr and the
\* destructor still returns.
C22_DestructionOnce ==
    last.op \in {"~CByteBuffer", "~CBuffer"} =>
        /\ cbuf.status = "destroyed"
        /\ ~cbuf.DataSet
        /\ last.s = 1
        /\ last.c = cbuf.VSize
        /\ DOMAIN cbuf.vm = 0..((cbuf.VSize \div PAGE_SIZE) - 1)
        /\ last.data = <<>> => \A p \in DOMAIN cbuf.vm : cbuf.vm[p] = PageUnmapped
        /\ last.data # <<>> =>
              last.data = <<IF last.op = "~CByteBuffer"
                            THEN "CByteBuffer Cleanup Error"
                            ELSE "CBuffer Cleanup Error">>
        /\ \A ok \in BOOLEAN, nulls \in BOOLEAN :
              /\ last.op = "~CByteBuffer" => CByteBuffer_Dtor(cbuf, ok, nulls).munmaps = 0
              /\ last.op = "~CBuffer" => CBuffer_Dtor(cbuf, ok, nulls).munmaps = 0

\* C22 (amended): the one run of the destructor of a successfully
\* constructed CByteBuffer or CBuffer<T> makes exactly one munmap call, over
\* the whole range [Data, Data+VSize), and returns; when munmap succeeds no
\* page of the range stays mapped; when it fails the only effect is the
\* message on stderr, every page stays as it was, and the destructor still
\* returns.  Nothing is said of Data afterwards.
C22_Destruction ==
    last.op \in {"~CByteBuffer", "~CBuffer"} =>
        /\ cbuf.status = "destroyed"
        /\ last.s = 1
        /\ last.c = cbuf.VSize
        /\ DOMAIN cbuf.vm = 0..((cbuf.VSize \div PAGE_SIZE) - 1)
        /\ last.data = <<>> => \A p \in DOMAIN cbuf.vm : cbuf.vm[p] = PageUnmapped
        /\ last.data # <<>> =>
              /\ last.data = <<IF last.op = "~CByteBuffer"
                               THEN "CByteBuffer Cleanup Error"
                               ELSE "CBuffer Cleanup Error">>
              /\ \E p \in DOMAIN cbuf.vm : cbuf.vm[p] # PageUnmapped

\* C22 witness: a CByteBuffer whose virtual range is larger than its
\* physical size, and that records were pushed into, was destroyed; munmap
\* failed, the message went to stderr and the destructor returned, in a
\* build that dropped the store Data = nullptr.
C22_Witness ==
    /\ last.op = "~CByteBuffer"
    /\ cbuf.status = "destroyed"
    /\ cbuf.VSize > cbuf.PSize
    /\ cbuf.Head > 0
    /\ cbuf.DataSet
    /\ last.data = <<"CByteBuffer Cleanup Error">>

\* C26: two threads call Push on one CByteBuffer or ByteBuffer with no lock,
\* their reads of Head, stores of bytes and writes of Head interleaved in
\* any way.  For every run in which both calls returned:
\*  - when both threads computed the places of their bytes from the same
\*    value of Head, each of those places holds the byte one of the two
\*    threads stored there, every other byte of the ring is as it was before
\*    the calls, and the two records are not both in the ring: one is lost;
\*  - when both threads started Head += sizeof(T) from the same value of
\*    Head, Head ends one record size past that value (less the range size
\*    for each wrap taken), not two, and when two records fit the ring this
\*    is not the Head that either sequential order of the two calls leaves;
\*  - when one thread entered after the other returned, the ring is what
\*    the two calls leave when made in that order.
C26_LostUpdate ==
    /\ (BothDone /\ SamePlace) =>
          /\ \A q \in DOMAIN RingBytes(RaceRing) :
                IF BytesTo(1, q) = {}
                THEN RingBytes(RaceRing)[q] = RingBytes(last.start)[q]
                ELSE \E i \in Threads : \E k \in BytesTo(i, q) :
                        RingBytes(RaceRing)[q] = pushed[i][k + 1]
          /\ ~(Intact(1) /\ Intact(2))
    /\ (BothDone /\ SameBase) =>
          /\ IsRing(cbuf) =>
                HeadNow \in {(last.thr[1].base + last.s + j * (SizeMod - cbuf.VSize))
                                % SizeMod : j \in 0..2}
          /\ ~IsRing(cbuf) =>
                HeadNow \in {(last.thr[1].base + last.s) % SizeMod, 0}
          /\ TwoFit => HeadNow \notin {SeqPush(1, 2).Head, SeqPush(2, 1).Head}
    /\ \A j \in Threads :
          (BothDone /\ last.thr[j].solo) => RaceRing = SeqPush(3 - j, j)

\* C26 witness: both calls returned without leaving the ring; both threads
\* stored at the same offset, past the start of a ring that two records
\* fit, and started their additions from the same Head; the record of
\* thread 2 is in the ring, that of thread 1 is lost, and Head moved by one
\* record size where either sequential order moves it by two.
C26_Witness ==
    /\ BothDone
    /\ ~RaceRing.oob
    /\ SamePlace
    /\ SameBase
    /\ TwoFit
    /\ last.c > 0
    /\ last.thr[1].h = last.c
    /\ Intact(2)
    /\ ~Intact(1)
    /\ HeadNow = last.c + last.s
    /\ SeqPush(1, 2).Head = last.c + 2 * last.s

\* C31: whenever a constructor of CByteBuffer or CBuffer<T> returned or threw
\* (Allocate succeeded, the reservation failed, memfd_create failed, or the
\* mapping of any slot failed), no descriptor is open: the descriptor of the
\* memory object was closed exactly once if memfd_create had opened it, and
\* close was never called if it had not.
C31_HandleDiscipline ==
    cbuf.status \in {"ready", "threw"} =>
        /\ cbuf.fd # "open"
        /\ cbuf.fd = "closed" <=> cbuf.closes = 1
        /\ cbuf.fd = "none" <=> cbuf.closes = 0
        /\ cbuf.fd = "none" <=>
              cbuf.err \in {"Virtual reservation failed", "memfd_create failed"}
        /\ cbuf.closes <= 1

\* C31 witness: the constructor of a CBuffer<T> threw because the mapping of
\* a slot after the first failed, and the descriptor had been opened and was
\* closed once.
C31_Witness ==
    /\ cbuf.class = "CBuffer"
    /\ cbuf.status = "threw"
    /\ cbuf.err = "Physical mapping failed"
    /\ cbuf.slots >= 1
    /\ cbuf.fd = "closed"
    /\ cbuf.closes = 1

====
